---- MODULE Spec2Model ----
(***************************************************************************)
(* Order / cart transactional workflow of the e-commerce backend.          *)
(*                                                                         *)
(* The relational store is PostgreSQL at its default isolation level       *)
(* (READ COMMITTED, database/sql Begin with no options): every statement   *)
(* reads the rows committed at the moment it runs, an UPDATE takes the     *)
(* row's lock and waits while another open transaction holds it, and the   *)
(* writes of a transaction become visible together at COMMIT.  A worker    *)
(* is one request being served; its record holds the handler's position    *)
(* and local variables.  The uncommitted writes of an open transaction     *)
(* are a function of that position, so they are derived, not stored.       *)
(***************************************************************************)
EXTENDS Integers, Sequences, FiniteSets, TLC

\* ---------------------------------------------------------------- bounds
NumProducts == 2
NumUsers == 1
NumWorkers == 2
MaxStock == 2
MaxQty == 2
MaxLines == 2
MaxOrders == 2
OneOrder == 1
MaxPrice == 2
StockCap == 4
MaxCartItems == 3
NumOwners == 2
DefaultLimit == 10
MaxLimit == 100

VARIABLES
    products,     \* table products: id -> [stock, price, is_active]
    orders,       \* table orders with its order_items: sequence, index = id
    users,        \* table users: the registered user ids
    carts,        \* table carts: sequence of user_id, index = id
    cart_items,   \* table cart_items: sequence of rows, index = id
    tx,           \* worker -> the request it serves (handler position, locals)
    initStock     \* history: stock of every product at start-up

vars == <<products, orders, users, carts, cart_items, tx, initStock>>

Products == 1 .. NumProducts
Workers == 1 .. NumWorkers
Prices == 1 .. MaxPrice
Quantities == 1 .. MaxQty

\* status CHECK constraint of table orders
Statuses == {"pending", "confirmed", "shipped", "delivered", "cancelled"}

\* product ids a request can carry: the rows of products and an id of no row
ProductIds == DOMAIN products \cup {NumProducts + 1}

\* CreateOrderItemRequest: binding gt=0 on quantity
CreateOrderItemRequest == [product_id : ProductIds, quantity : Quantities]

\* CreateOrderRequest.Items: binding min=1
OrderRequests ==
    UNION { [1 .. n -> CreateOrderItemRequest] : n \in 1 .. MaxLines }

\* a nil pointer of UpdateProductRequest is the empty set
NoChange == [price |-> {}, stock |-> {}, is_active |-> {}]

\* GET /orders without query parameters
NoQuery ==
    [user_id |-> {}, status |-> {}, start_date |-> {}, end_date |-> {},
     page |-> 0, limit |-> 0]

Idle ==
    [op |-> "none", pc |-> "idle", user |-> 0, id |-> 0, items |-> << >>,
     status |-> "", i |-> 0, prices |-> << >>, delta |-> << >>,
     result |-> "", again |-> FALSE,
     product |-> 0, qty |-> 0, cart |-> 0, item |-> 0, seen |-> 0, n |-> 0,
     mode |-> "", prev |-> 0, req |-> NoChange,
     available |-> 0, requested |-> 0,
     role |-> "", query |-> NoQuery, total |-> 0, pages |-> 0,
     page |-> 0, limit |-> 0, list |-> << >>, warning |-> ""]

\* ------------------------------------------------------------ arithmetic
RECURSIVE SumQty(_, _, _)
\* total quantity of the first k lines of items that name product p
SumQty(items, k, p) ==
    IF k = 0 THEN 0
    ELSE SumQty(items, k - 1, p) +
         (IF items[k].product_id = p THEN items[k].quantity ELSE 0)

RECURSIVE TotalAmount(_, _, _)
\* totalAmount += product.Price * float64(item.Quantity), first k lines
TotalAmount(items, prices, k) ==
    IF k = 0 THEN 0
    ELSE TotalAmount(items, prices, k - 1) + prices[k] * items[k].quantity

OrderProducts(o) == { orders[o].items[j].product_id : j \in DOMAIN orders[o].items }

\* ------------------------------------------------------- schema constraints
\* a products table created without the CHECK on stock
StockCheckMissing(s) == TRUE

\* products.stock INTEGER NOT NULL CHECK (stock >= 0)
StockCheck(s) == s >= 0

\* products.price DECIMAL(10,2) NOT NULL CHECK (price >= 0)
PriceCheck(p) == p >= 0

\* ------------------------------------------------------------- row locks
\* CheckoutCart calls CreateOrder with the lines of the cart
CreateOps == {"CreateOrder", "CheckoutCart"}

\* rows of products an open transaction of worker w has updated
HoldsProduct(w, p) ==
    \/ /\ tx[w].op \in CreateOps
       /\ tx[w].pc \in {"items", "commit"}
       /\ \E j \in 1 .. (tx[w].i - 1) : tx[w].items[j].product_id = p
    \/ /\ tx[w].op = "CancelOrder"
       /\ tx[w].pc = "commit"
       /\ p \in DOMAIN tx[w].delta

\* row of orders an open transaction of worker w has updated
HoldsOrder(w, o) ==
    /\ tx[w].op = "CancelOrder"
    /\ tx[w].pc \in {"restore", "commit"}
    /\ tx[w].id = o

ProductFree(w, p) == \A v \in DOMAIN tx : v # w => ~HoldsProduct(v, p)
OrderFree(w, o) == \A v \in DOMAIN tx : v # w => ~HoldsOrder(v, o)

\* ------------------------------------------------------------- bookkeeping
\* a worker is ready for a request before its first one and after each response
Ready(w) == tx[w].pc \in {"idle", "done"}
Open(w) == ~Ready(w)

\* the handler returns: the worker keeps the response (the operation, the row
\* id it names, the error text or "ok", the request line it stopped at)
ReturnAt(w, op, id, result, i) ==
    tx' = [tx EXCEPT ![w] = [Idle EXCEPT !.op = op, !.pc = "done", !.id = id,
                                !.result = result, !.i = i,
                                !.again = tx[w].again /\ Open(w)]]

Return(w, op, id, result) == ReturnAt(w, op, id, result, 0)

\* fmt.Errorf("insufficient stock for product %s (available: %d, requested: %d)"):
\* the response carries the two numbers of the message
InsufficientStock(w, op, i, available, requested) ==
    tx' = [tx EXCEPT ![w] = [Idle EXCEPT !.op = op, !.pc = "done",
                                !.result = "insufficient stock", !.i = i,
                                !.product = tx[w].product, !.cart = tx[w].cart,
                                !.available = available,
                                !.requested = requested]]

StockOf(prods) == [p \in DOMAIN prods |-> prods[p].stock]

\* -------------------------------------------------- OrderService.CreateOrder
\* requests on their way to an order row
OpenCreates ==
    Cardinality({ v \in DOMAIN tx :
                    tx[v].op \in CreateOps /\ Open(v) /\ tx[v].id = 0 })

\* tx.Begin: the handler has bound the request and taken user_id from the token
CreateOrderBegin(w, cap) ==
    /\ Ready(w)
    /\ Len(orders) + OpenCreates < cap
    /\ \E u \in users, items \in OrderRequests :
          tx' = [tx EXCEPT ![w] = [Idle EXCEPT !.op = "CreateOrder",
                     !.pc = "validate", !.user = u, !.items = items, !.i = 1]]
    /\ UNCHANGED <<products, orders, users, carts, cart_items, initStock>>

\* the first loop with a SELECT that leaves out AND is_active = true
CreateOrderValidateAnyProduct(w) ==
    /\ tx[w].op \in CreateOps
    /\ tx[w].pc = "validate"
    /\ LET item == tx[w].items[tx[w].i]
           p == item.product_id
       IN  IF p \notin DOMAIN products
           THEN ReturnAt(w, tx[w].op, 0, "product not found or inactive", tx[w].i)
           ELSE IF products[p].stock < item.quantity
           THEN InsufficientStock(w, tx[w].op, tx[w].i,
                                  products[p].stock, item.quantity)
           ELSE /\ tx' = [tx EXCEPT
                      ![w].prices = Append(@, products[p].price),
                      ![w].i = IF @ = Len(tx[w].items) THEN 1 ELSE @ + 1,
                      ![w].pc = IF tx[w].i = Len(tx[w].items)
                                THEN "insert" ELSE "validate"]
    /\ UNCHANGED <<products, orders, users, carts, cart_items, initStock>>

\* one pass of the first loop: SELECT ... WHERE id = $1 AND is_active = true,
\* then the stock comparison
CreateOrderValidate(w) ==
    /\ tx[w].op \in CreateOps
    /\ tx[w].pc = "validate"
    /\ LET item == tx[w].items[tx[w].i]
           p == item.product_id
       IN  IF p \notin DOMAIN products \/ ~products[p].is_active
           THEN ReturnAt(w, tx[w].op, 0, "product not found or inactive", tx[w].i)
           ELSE IF products[p].stock < item.quantity
           THEN InsufficientStock(w, tx[w].op, tx[w].i,
                                  products[p].stock, item.quantity)
           ELSE /\ tx' = [tx EXCEPT
                      ![w].prices = Append(@, products[p].price),
                      ![w].i = IF @ = Len(tx[w].items) THEN 1 ELSE @ + 1,
                      ![w].pc = IF tx[w].i = Len(tx[w].items)
                                THEN "insert" ELSE "validate"]
    /\ UNCHANGED <<products, orders, users, carts, cart_items, initStock>>

\* INSERT INTO orders ... RETURNING: the row stays invisible until COMMIT
CreateOrderInsert(w) ==
    /\ tx[w].op \in CreateOps
    /\ tx[w].pc = "insert"
    /\ tx' = [tx EXCEPT ![w].pc = "items"]
    /\ UNCHANGED <<products, orders, users, carts, cart_items, initStock>>

\* the second loop run on s.db instead of tx: each stock update commits at once
CreateOrderItemOutsideTx(w) ==
    /\ tx[w].op \in CreateOps
    /\ tx[w].pc = "items"
    /\ LET k == tx[w].i
           p == tx[w].items[k].product_id
       IN  /\ ProductFree(w, p)
           /\ IF StockCheck(products[p].stock - tx[w].items[k].quantity)
              THEN /\ products' = [products EXCEPT
                         ![p].stock = @ - tx[w].items[k].quantity]
                   /\ IF k = Len(tx[w].items)
                      THEN Return(w, tx[w].op, 0, "storage error")
                      ELSE tx' = [tx EXCEPT ![w].i = k + 1]
              ELSE /\ ReturnAt(w, tx[w].op, 0, "failed to update product stock", k)
                   /\ UNCHANGED products
    /\ UNCHANGED <<orders, users, carts, cart_items, initStock>>

\* one pass of the second loop: INSERT INTO order_items, then
\* UPDATE products SET stock = stock - $1, which waits for the row's lock and
\* fails on the CHECK constraint
CreateOrderItem(w) ==
    /\ tx[w].op \in CreateOps
    /\ tx[w].pc = "items"
    /\ LET k == tx[w].i
           p == tx[w].items[k].product_id
       IN  /\ ProductFree(w, p)
           /\ IF StockCheck(products[p].stock - SumQty(tx[w].items, k, p))
              THEN /\ tx' = [tx EXCEPT
                         ![w].i = k + 1,
                         ![w].pc = IF k = Len(tx[w].items)
                                   THEN "commit" ELSE "items"]
              ELSE ReturnAt(w, tx[w].op, 0, "failed to update product stock", k)
    /\ UNCHANGED <<products, orders, users, carts, cart_items, initStock>>

\* an order whose total adds up the prices without the quantities
NewOrderUnitTotal(w) ==
    [user_id |-> tx[w].user,
     status |-> "pending",
     total_amount |-> TotalAmount([j \in DOMAIN tx[w].items |-> [quantity |-> 1]],
                                 tx[w].prices, Len(tx[w].items)),
     items |-> [j \in DOMAIN tx[w].items |->
                  [product_id |-> tx[w].items[j].product_id,
                   quantity |-> tx[w].items[j].quantity,
                   price |-> tx[w].prices[j]]]]

\* the order row and its order_items rows as the transaction inserts them
NewOrder(w) ==
    [user_id |-> tx[w].user,
     status |-> "pending",
     total_amount |-> TotalAmount(tx[w].items, tx[w].prices, Len(tx[w].items)),
     items |-> [j \in DOMAIN tx[w].items |->
                  [product_id |-> tx[w].items[j].product_id,
                   quantity |-> tx[w].items[j].quantity,
                   price |-> tx[w].prices[j]]]]

\* tx.Commit
CreateOrderCommit(w) ==
    /\ tx[w].op \in CreateOps
    /\ tx[w].pc = "commit"
    /\ products' = [p \in DOMAIN products |->
          [products[p] EXCEPT
             !.stock = @ - SumQty(tx[w].items, Len(tx[w].items), p)]]
    /\ orders' = Append(orders, NewOrder(w))
    /\ tx' = [tx EXCEPT ![w] = [Idle EXCEPT !.op = tx[w].op, !.pc = "get_order",
                                   !.user = tx[w].user, !.cart = tx[w].cart,
                                   !.id = Len(orders) + 1]]
    /\ UNCHANGED <<users, carts, cart_items, initStock>>

\* return s.GetOrder(order.ID): the response of CreateOrder; CheckoutCart goes
\* on to ClearCart
CreateOrderGetOrder(w) ==
    /\ tx[w].op \in CreateOps
    /\ tx[w].pc = "get_order"
    /\ IF tx[w].op = "CheckoutCart"
       THEN tx' = [tx EXCEPT ![w].pc = "clear_cart"]
       ELSE Return(w, "CreateOrder", tx[w].id, "ok")
    /\ UNCHANGED <<products, orders, users, carts, cart_items, initStock>>

CreateOrderSteps(w) ==
    \/ CreateOrderValidate(w)
    \/ CreateOrderInsert(w)
    \/ CreateOrderItem(w)
    \/ CreateOrderCommit(w)
    \/ CreateOrderGetOrder(w)

CreateOrder(w, cap) ==
    \/ CreateOrderBegin(w, cap)
    \/ CreateOrderSteps(w)

\* -------------------------------------------------- OrderService.CancelOrder
OrderIds == 1 .. (Len(orders) + 1)

\* the handler has parsed the order id; u is the user of the caller's token,
\* which the handler does not read
CancelOrderBegin(w) ==
    /\ Ready(w)
    /\ \E id \in OrderIds, u \in users :
          tx' = [tx EXCEPT ![w] = [Idle EXCEPT !.op = "CancelOrder",
                     !.pc = "select", !.id = id, !.user = u,
                     !.again = /\ tx[w].op = "CancelOrder"
                               /\ tx[w].pc = "done"
                               /\ tx[w].id = id
                               /\ tx[w].result = "ok"]]
    /\ UNCHANGED <<products, orders, users, carts, cart_items, initStock>>

\* CancelOrder without the test for status "cancelled"
CancelOrderSelectNoCancelledTest(w) ==
    /\ tx[w].op = "CancelOrder"
    /\ tx[w].pc = "select"
    /\ LET id == tx[w].id
       IN  IF id \notin DOMAIN orders
           THEN Return(w, "CancelOrder", id, "order not found")
           ELSE IF orders[id].status = "delivered"
           THEN Return(w, "CancelOrder", id, "cannot cancel delivered order")
           ELSE /\ tx' = [tx EXCEPT ![w].pc = "update"]
    /\ UNCHANGED <<products, orders, users, carts, cart_items, initStock>>

\* a CancelOrder that finds only the orders of its caller
CancelOrderSelectOwnerOnly(w) ==
    /\ tx[w].op = "CancelOrder"
    /\ tx[w].pc = "select"
    /\ LET id == tx[w].id
       IN  IF id \notin DOMAIN orders \/ orders[id].user_id # tx[w].user
           THEN Return(w, "CancelOrder", id, "order not found")
           ELSE IF orders[id].status = "cancelled"
           THEN Return(w, "CancelOrder", id, "order is already cancelled")
           ELSE IF orders[id].status = "delivered"
           THEN Return(w, "CancelOrder", id, "cannot cancel delivered order")
           ELSE /\ tx' = [tx EXCEPT ![w].pc = "update"]
    /\ UNCHANGED <<products, orders, users, carts, cart_items, initStock>>

\* SELECT id, status FROM orders WHERE id = $1 and the two status tests
CancelOrderSelect(w) ==
    /\ tx[w].op = "CancelOrder"
    /\ tx[w].pc = "select"
    /\ LET id == tx[w].id
       IN  IF id \notin DOMAIN orders
           THEN Return(w, "CancelOrder", id, "order not found")
           ELSE IF orders[id].status = "cancelled"
           THEN Return(w, "CancelOrder", id, "order is already cancelled")
           ELSE IF orders[id].status = "delivered"
           THEN Return(w, "CancelOrder", id, "cannot cancel delivered order")
           ELSE /\ tx' = [tx EXCEPT ![w].pc = "update"]
    /\ UNCHANGED <<products, orders, users, carts, cart_items, initStock>>

\* UPDATE orders SET status = 'cancelled' WHERE id = $1: waits for the row's lock
CancelOrderUpdate(w) ==
    /\ tx[w].op = "CancelOrder"
    /\ tx[w].pc = "update"
    /\ OrderFree(w, tx[w].id)
    /\ tx' = [tx EXCEPT ![w].pc = "restore"]
    /\ UNCHANGED <<products, orders, users, carts, cart_items, initStock>>

\* the quantities UPDATE products ... FROM order_items can add: each product row
\* is updated once, from one of the order_items rows that join to it
JoinedQuantities(id) ==
    { d \in [OrderProducts(id) -> Quantities] :
        \A p \in OrderProducts(id) :
            \E j \in DOMAIN orders[id].items :
                /\ orders[id].items[j].product_id = p
                /\ orders[id].items[j].quantity = d[p] }

\* UPDATE products SET stock = stock + oi.quantity FROM order_items oi WHERE ...
CancelOrderRestore(w) ==
    /\ tx[w].op = "CancelOrder"
    /\ tx[w].pc = "restore"
    /\ \A p \in OrderProducts(tx[w].id) : ProductFree(w, p)
    /\ \E d \in JoinedQuantities(tx[w].id) :
          /\ \A p \in DOMAIN d : products[p].stock + d[p] <= StockCap
          /\ tx' = [tx EXCEPT ![w].delta = d, ![w].pc = "commit"]
    /\ UNCHANGED <<products, orders, users, carts, cart_items, initStock>>

\* tx.Commit
CancelOrderCommit(w) ==
    /\ tx[w].op = "CancelOrder"
    /\ tx[w].pc = "commit"
    /\ orders' = [orders EXCEPT ![tx[w].id].status = "cancelled"]
    /\ products' = [p \in DOMAIN products |->
          IF p \in DOMAIN tx[w].delta
          THEN [products[p] EXCEPT !.stock = @ + tx[w].delta[p]]
          ELSE products[p]]
    /\ tx' = [tx EXCEPT ![w] = [Idle EXCEPT !.op = "CancelOrder", !.pc = "done",
                                   !.id = tx[w].id, !.result = "ok",
                                   !.again = tx[w].again, !.user = tx[w].user]]
    /\ UNCHANGED <<users, carts, cart_items, initStock>>

CancelOrder(w) ==
    \/ CancelOrderBegin(w)
    \/ CancelOrderSelect(w)
    \/ CancelOrderUpdate(w)
    \/ CancelOrderRestore(w)
    \/ CancelOrderCommit(w)

\* -------------------------------------------- OrderService.UpdateOrderStatus
\* the handler has parsed the order id and bound the request; u is the user of
\* the caller's token, which the handler does not read
UpdateOrderStatusBegin(w) ==
    /\ Ready(w)
    /\ \E id \in OrderIds, st \in Statuses, u \in users :
          tx' = [tx EXCEPT ![w] = [Idle EXCEPT !.op = "UpdateOrderStatus",
                     !.pc = "get", !.id = id, !.status = st, !.user = u]]
    /\ UNCHANGED <<products, orders, users, carts, cart_items, initStock>>

\* s.GetOrder(id): the existence check
UpdateOrderStatusGet(w) ==
    /\ tx[w].op = "UpdateOrderStatus"
    /\ tx[w].pc = "get"
    /\ IF tx[w].id \notin DOMAIN orders
       THEN Return(w, "UpdateOrderStatus", tx[w].id, "order not found")
       ELSE /\ tx' = [tx EXCEPT ![w].pc = "update"]
    /\ UNCHANGED <<products, orders, users, carts, cart_items, initStock>>

\* an UPDATE that leaves delivered and cancelled orders as they are
UpdateOrderStatusExecGuarded(w) ==
    /\ tx[w].op = "UpdateOrderStatus"
    /\ tx[w].pc = "update"
    /\ OrderFree(w, tx[w].id)
    /\ orders' = IF orders[tx[w].id].status \in {"delivered", "cancelled"}
                 THEN orders
                 ELSE [orders EXCEPT ![tx[w].id].status = tx[w].status]
    /\ tx' = [tx EXCEPT ![w] = [Idle EXCEPT !.op = "UpdateOrderStatus",
                                   !.pc = "done", !.id = tx[w].id,
                                   !.result = "ok", !.user = tx[w].user]]
    /\ UNCHANGED <<products, users, carts, cart_items, initStock>>

\* UPDATE orders SET status = $1 WHERE id = $2 (autocommit), then GetOrder
UpdateOrderStatusExec(w) ==
    /\ tx[w].op = "UpdateOrderStatus"
    /\ tx[w].pc = "update"
    /\ OrderFree(w, tx[w].id)
    /\ orders' = [orders EXCEPT ![tx[w].id].status = tx[w].status]
    /\ tx' = [tx EXCEPT ![w] = [Idle EXCEPT !.op = "UpdateOrderStatus",
                                   !.pc = "done", !.id = tx[w].id,
                                   !.result = "ok", !.user = tx[w].user]]
    /\ UNCHANGED <<products, users, carts, cart_items, initStock>>

UpdateOrderStatus(w) ==
    \/ UpdateOrderStatusBegin(w)
    \/ UpdateOrderStatusGet(w)
    \/ UpdateOrderStatusExec(w)

\* ------------------------------------------- OrderService.GetOrderStatistics
RECURSIVE SumTotalAmount(_, _)
\* SUM(total_amount) over the rows of S, COALESCEd to 0
SumTotalAmount(rows, S) ==
    IF S = {} THEN 0
    ELSE LET o == CHOOSE x \in S : TRUE
         IN  rows[o].total_amount + SumTotalAmount(rows, S \ {o})

GetOrderStatisticsBegin(w) ==
    /\ Ready(w)
    /\ tx' = [tx EXCEPT ![w] = [Idle EXCEPT !.op = "GetOrderStatistics",
                                   !.pc = "count"]]
    /\ UNCHANGED <<products, orders, users, carts, cart_items, initStock>>

\* SELECT COUNT(*) FROM orders on s.db
GetOrderStatisticsCount(w) ==
    /\ tx[w].op = "GetOrderStatistics"
    /\ tx[w].pc = "count"
    /\ tx' = [tx EXCEPT ![w].n = Len(orders), ![w].pc = "revenue"]
    /\ UNCHANGED <<products, orders, users, carts, cart_items, initStock>>

\* a revenue that adds up the orders of every status
GetOrderStatisticsRevenueAll(w) ==
    /\ tx[w].op = "GetOrderStatistics"
    /\ tx[w].pc = "revenue"
    /\ tx' = [tx EXCEPT ![w].total = SumTotalAmount(orders, DOMAIN orders),
                        ![w].pc = "by_status"]
    /\ UNCHANGED <<products, orders, users, carts, cart_items, initStock>>

\* SELECT COALESCE(SUM(total_amount), 0) FROM orders WHERE status != 'cancelled',
\* a second statement on s.db
GetOrderStatisticsRevenue(w) ==
    /\ tx[w].op = "GetOrderStatistics"
    /\ tx[w].pc = "revenue"
    /\ tx' = [tx EXCEPT
          ![w].total = SumTotalAmount(orders,
                          { o \in DOMAIN orders : orders[o].status # "cancelled" }),
          ![w].pc = "by_status"]
    /\ UNCHANGED <<products, orders, users, carts, cart_items, initStock>>

\* SELECT status, COUNT(*) FROM orders GROUP BY status, a third statement on
\* s.db: a map with an entry for each status that has orders. The statement
\* that counts the orders of the last seven days follows and reads neither
\* status nor amount.
GetOrderStatisticsByStatus(w) ==
    /\ tx[w].op = "GetOrderStatistics"
    /\ tx[w].pc = "by_status"
    /\ tx' = [tx EXCEPT
          ![w].delta = [s \in { orders[o].status : o \in DOMAIN orders } |->
                          Cardinality({ o \in DOMAIN orders : orders[o].status = s })],
          ![w].result = "ok",
          ![w].pc = "done"]
    /\ UNCHANGED <<products, orders, users, carts, cart_items, initStock>>

GetOrderStatistics(w) ==
    \/ GetOrderStatisticsBegin(w)
    \/ GetOrderStatisticsCount(w)
    \/ GetOrderStatisticsRevenue(w)
    \/ GetOrderStatisticsByStatus(w)

\* ----------------------------------------------- ProductService.DeleteProduct
DeleteProductBegin(w) ==
    /\ Ready(w)
    /\ \E id \in ProductIds :
          tx' = [tx EXCEPT ![w] = [Idle EXCEPT !.op = "DeleteProduct",
                                      !.pc = "get", !.id = id]]
    /\ UNCHANGED <<products, orders, users, carts, cart_items, initStock>>

\* s.GetProduct(id): the existence check, which finds inactive products too
DeleteProductGet(w) ==
    /\ tx[w].op = "DeleteProduct"
    /\ tx[w].pc = "get"
    /\ IF tx[w].id \notin DOMAIN products
       THEN Return(w, "DeleteProduct", tx[w].id, "product not found")
       ELSE tx' = [tx EXCEPT ![w].pc = "update"]
    /\ UNCHANGED <<products, orders, users, carts, cart_items, initStock>>

\* a delete that also takes the product out of stock
DeleteProductExecNoStock(w) ==
    /\ tx[w].op = "DeleteProduct"
    /\ tx[w].pc = "update"
    /\ ProductFree(w, tx[w].id)
    /\ products' = [products EXCEPT ![tx[w].id].is_active = FALSE,
                                    ![tx[w].id].stock = 0]
    /\ Return(w, "DeleteProduct", tx[w].id, "ok")
    /\ UNCHANGED <<orders, users, carts, cart_items, initStock>>

\* UPDATE products SET is_active = false, updated_at = NOW() WHERE id = $1
\* (autocommit): waits for the row's lock
DeleteProductExec(w) ==
    /\ tx[w].op = "DeleteProduct"
    /\ tx[w].pc = "update"
    /\ ProductFree(w, tx[w].id)
    /\ products' = [products EXCEPT ![tx[w].id].is_active = FALSE]
    /\ Return(w, "DeleteProduct", tx[w].id, "ok")
    /\ UNCHANGED <<orders, users, carts, cart_items, initStock>>

DeleteProduct(w) ==
    \/ DeleteProductBegin(w)
    \/ DeleteProductGet(w)
    \/ DeleteProductExec(w)

\* ------------------------------------------------ ProductService.UpdateStock
\* the handler's quantity: binding "required" rejects 0, the sign is free
StockDeltas == (0 - MaxQty .. MaxQty) \ {0}

UpdateStockBegin(w) ==
    /\ Ready(w)
    /\ \E id \in ProductIds, q \in StockDeltas :
          tx' = [tx EXCEPT ![w] = [Idle EXCEPT !.op = "UpdateStock",
                     !.pc = "update", !.id = id, !.qty = q]]
    /\ UNCHANGED <<products, orders, users, carts, cart_items, initStock>>

\* UPDATE products SET stock = stock + $1 WHERE id = $2 (autocommit): no row
\* matched is no error
UpdateStockExec(w) ==
    /\ tx[w].op = "UpdateStock"
    /\ tx[w].pc = "update"
    /\ LET id == tx[w].id
           q == tx[w].qty
       IN  IF id \notin DOMAIN products
           THEN /\ Return(w, "UpdateStock", id, "ok")
                /\ UNCHANGED products
           ELSE /\ ProductFree(w, id)
                /\ products[id].stock + q <= StockCap
                /\ IF StockCheck(products[id].stock + q)
                   THEN /\ products' = [products EXCEPT ![id].stock = @ + q]
                        /\ Return(w, "UpdateStock", id, "ok")
                   ELSE /\ Return(w, "UpdateStock", id, "failed to update stock")
                        /\ UNCHANGED products
    /\ UNCHANGED <<orders, users, carts, cart_items, initStock>>

UpdateStock(w) ==
    \/ UpdateStockBegin(w)
    \/ UpdateStockExec(w)

\* ---------------------------------------------- ProductService.UpdateProduct
Optional(S) == {{}} \cup { {x} : x \in S }

\* UpdateProductRequest: the pointer fields that reach the stock ledger and the
\* price snapshot; no binding restricts their values
UpdateProductRequest ==
    [price : Optional(Prices), stock : Optional(-1 .. MaxStock),
     is_active : Optional(BOOLEAN)]

StockRequests ==
    { r \in UpdateProductRequest : r.price = {} /\ r.is_active = {} }

PriceRequests ==
    { r \in UpdateProductRequest : r.stock = {} /\ r.is_active = {} }

\* requests that set one field, or none
FieldRequests == StockRequests \cup PriceRequests \cup
    { r \in UpdateProductRequest : r.price = {} /\ r.stock = {} }

Patch(old, field) == IF field = {} THEN old ELSE CHOOSE x \in field : TRUE

UpdateProductBegin(w, reqs) ==
    /\ Ready(w)
    /\ \E id \in ProductIds, req \in reqs :
          tx' = [tx EXCEPT ![w] = [Idle EXCEPT !.op = "UpdateProduct",
                     !.pc = "get", !.id = id, !.req = req]]
    /\ UNCHANGED <<products, orders, users, carts, cart_items, initStock>>

\* s.GetProduct(id), and the early return when no field is set
UpdateProductGet(w) ==
    /\ tx[w].op = "UpdateProduct"
    /\ tx[w].pc = "get"
    /\ IF tx[w].id \notin DOMAIN products
       THEN Return(w, "UpdateProduct", tx[w].id, "product not found")
       ELSE IF tx[w].req = NoChange
       THEN Return(w, "UpdateProduct", tx[w].id, "ok")
       ELSE tx' = [tx EXCEPT ![w].pc = "update"]
    /\ UNCHANGED <<products, orders, users, carts, cart_items, initStock>>

\* the UPDATE also rewrites the price of the order items of the product
UpdateProductExecCascade(w) ==
    /\ tx[w].op = "UpdateProduct"
    /\ tx[w].pc = "update"
    /\ ProductFree(w, tx[w].id)
    /\ LET id == tx[w].id
           req == tx[w].req
           new == [stock |-> Patch(products[id].stock, req.stock),
                   price |-> Patch(products[id].price, req.price),
                   is_active |-> Patch(products[id].is_active, req.is_active)]
       IN  IF StockCheck(new.stock) /\ PriceCheck(new.price)
           THEN /\ products' = [products EXCEPT ![id] = new]
                /\ orders' = [o \in DOMAIN orders |->
                      [orders[o] EXCEPT !.items =
                          [j \in DOMAIN orders[o].items |->
                              IF orders[o].items[j].product_id = id
                              THEN [orders[o].items[j] EXCEPT !.price = new.price]
                              ELSE orders[o].items[j]]]]
                /\ Return(w, "UpdateProduct", id, "ok")
           ELSE /\ Return(w, "UpdateProduct", id, "failed to update product")
                /\ UNCHANGED <<products, orders>>
    /\ UNCHANGED <<users, carts, cart_items, initStock>>

\* UPDATE products SET ... WHERE id = $n RETURNING ... (autocommit)
UpdateProductExec(w) ==
    /\ tx[w].op = "UpdateProduct"
    /\ tx[w].pc = "update"
    /\ ProductFree(w, tx[w].id)
    /\ LET id == tx[w].id
           req == tx[w].req
           new == [stock |-> Patch(products[id].stock, req.stock),
                   price |-> Patch(products[id].price, req.price),
                   is_active |-> Patch(products[id].is_active, req.is_active)]
       IN  IF StockCheck(new.stock) /\ PriceCheck(new.price)
           THEN /\ products' = [products EXCEPT ![id] = new]
                /\ Return(w, "UpdateProduct", id, "ok")
           ELSE /\ Return(w, "UpdateProduct", id, "failed to update product")
                /\ UNCHANGED products
    /\ UNCHANGED <<orders, users, carts, cart_items, initStock>>

UpdateProduct(w, reqs) ==
    \/ UpdateProductBegin(w, reqs)
    \/ UpdateProductGet(w)
    \/ UpdateProductExec(w)

\* ---------------------------------------------------- CartService (tables)
CartRow(c, p, q) == [cart_id |-> c, product_id |-> p, quantity |-> q]

\* a deleted row of cart_items: its id is never used again
Deleted == [cart_id |-> 0, product_id |-> 0, quantity |-> 0]

\* rows of carts with user_id = u
CartsOf(u) == { c \in DOMAIN carts : carts[c] = u }

\* rows of cart_items with cart_id = c and product_id = p
ItemsOf(rows, c, p) ==
    { k \in DOMAIN rows : rows[k].cart_id = c /\ rows[k].product_id = p }

\* a cart_items table created without UNIQUE(cart_id, product_id)
CartItemUniqueMissing(rows, c, p) == TRUE

\* cart_items: UNIQUE(cart_id, product_id), checked when a row is inserted
CartItemUnique(rows, c, p) == ItemsOf(rows, c, p) = {}

\* carts: UNIQUE(user_id), checked when a row is inserted
CartUnique(u) == CartsOf(u) = {}

\* the operations that write cart_items and touch the cart in one transaction
CartWriteOps == {"AddToCart", "UpdateCartItem", "RemoveFromCart"}

\* row of cart_items an open transaction of worker w has updated or deleted
HoldsItem(w, k) ==
    /\ tx[w].op \in CartWriteOps
    /\ tx[w].pc \in {"touch", "commit"}
    /\ tx[w].mode \in {"update", "delete"}
    /\ tx[w].item = k

\* row of cart_items an open transaction of worker w has inserted
InsertsItem(w, c, p) ==
    /\ tx[w].op = "AddToCart"
    /\ tx[w].pc \in {"touch", "commit"}
    /\ tx[w].mode = "insert"
    /\ tx[w].cart = c
    /\ tx[w].product = p

\* row of carts an open transaction of worker w has updated
HoldsCart(w, c) ==
    /\ tx[w].op \in CartWriteOps
    /\ tx[w].pc = "commit"
    /\ tx[w].cart = c

ItemFree(w, k) == \A v \in DOMAIN tx : v # w => ~HoldsItem(v, k)
KeyFree(w, c, p) == \A v \in DOMAIN tx : v # w => ~InsertsItem(v, c, p)
CartFree(w, c) == \A v \in DOMAIN tx : v # w => ~HoldsCart(v, c)

\* the handler returns an error; CheckoutCart only logs the errors of ClearCart
\* (the warning it prints) and returns the order
Fail(w, err) ==
    IF tx[w].op = "CheckoutCart"
       /\ tx[w].pc \in {"clear_cart", "clear_cart_new", "clear_items", "clear_touch"}
    THEN tx' = [tx EXCEPT ![w] = [Idle EXCEPT !.op = "CheckoutCart",
                    !.pc = "done", !.id = tx[w].id, !.result = "ok",
                    !.user = tx[w].user, !.warning = err]]
    ELSE Return(w, tx[w].op, tx[w].id, err)

\* GetOrCreateCart on s.db: the SELECT at position at, and when it finds no row
\* the INSERT at position atNew, which fails on UNIQUE(user_id) when a cart of
\* the user has been inserted in between
GetOrCreateCart(w, at, atNew, next) ==
    /\ tx[w].pc \in {at, atNew}
    /\ IF tx[w].pc = at
       THEN /\ IF CartsOf(tx[w].user) = {}
               THEN tx' = [tx EXCEPT ![w].pc = atNew]
               ELSE \E c \in CartsOf(tx[w].user) :
                       tx' = [tx EXCEPT ![w].cart = c, ![w].pc = next]
            /\ UNCHANGED carts
       ELSE IF CartUnique(tx[w].user)
       THEN /\ carts' = Append(carts, tx[w].user)
            /\ tx' = [tx EXCEPT ![w].cart = Len(carts) + 1, ![w].pc = next]
       ELSE /\ Fail(w, "failed to create cart")
            /\ UNCHANGED carts
    /\ UNCHANGED <<products, orders, users, cart_items, initStock>>

\* ---------------------------------------------------- CartService.AddToCart
OpenAdds ==
    Cardinality({ v \in DOMAIN tx : tx[v].op = "AddToCart" /\ Open(v) })

\* tx.Begin: the handler has bound the request (quantity gt=0) and taken
\* user_id from the token
AddToCartBegin(w, cap) ==
    /\ Ready(w)
    /\ Len(cart_items) + OpenAdds < cap
    /\ \E u \in users, p \in ProductIds, q \in Quantities :
          LET first == /\ tx[w].op = "AddToCart"
                       /\ tx[w].pc = "done"
                       /\ tx[w].result = "ok"
                       /\ tx[w].mode = "insert"
                       /\ tx[w].user = u
                       /\ tx[w].product = p
          IN  tx' = [tx EXCEPT ![w] = [Idle EXCEPT !.op = "AddToCart",
                         !.pc = "cart", !.user = u, !.product = p, !.qty = q,
                         !.again = first,
                         !.prev = IF first THEN tx[w].qty ELSE 0]]
    /\ UNCHANGED <<products, orders, users, carts, cart_items, initStock>>

AddToCartCart(w) ==
    /\ tx[w].op = "AddToCart"
    /\ GetOrCreateCart(w, "cart", "cart_new", "product")

\* SELECT id, name, price, stock FROM products WHERE id = $1 AND is_active = true
AddToCartProduct(w) ==
    /\ tx[w].op = "AddToCart"
    /\ tx[w].pc = "product"
    /\ LET p == tx[w].product
       IN  IF p \notin DOMAIN products \/ ~products[p].is_active
           THEN Return(w, "AddToCart", 0, "product not found or inactive")
           ELSE tx' = [tx EXCEPT ![w].seen = products[p].stock, ![w].pc = "item"]
    /\ UNCHANGED <<products, orders, users, carts, cart_items, initStock>>

\* the stock comparison made on the requested quantity alone in both branches
AddToCartItemRequestOnly(w) ==
    /\ tx[w].op = "AddToCart"
    /\ tx[w].pc = "item"
    /\ LET found == ItemsOf(cart_items, tx[w].cart, tx[w].product)
       IN  IF tx[w].qty > tx[w].seen
           THEN InsufficientStock(w, "AddToCart", 0, tx[w].seen, tx[w].qty)
           ELSE IF found = {}
           THEN tx' = [tx EXCEPT ![w].item = 0, ![w].n = 0, ![w].pc = "write"]
           ELSE \E k \in found :
                   tx' = [tx EXCEPT ![w].item = k,
                                    ![w].n = cart_items[k].quantity,
                                    ![w].pc = "write"]
    /\ UNCHANGED <<products, orders, users, carts, cart_items, initStock>>

\* SELECT id, quantity FROM cart_items WHERE cart_id = $1 AND product_id = $2,
\* and the stock comparison of the branch taken
AddToCartItem(w) ==
    /\ tx[w].op = "AddToCart"
    /\ tx[w].pc = "item"
    /\ LET found == ItemsOf(cart_items, tx[w].cart, tx[w].product)
       IN  IF found = {}
           THEN IF tx[w].qty > tx[w].seen
                THEN InsufficientStock(w, "AddToCart", 0, tx[w].seen, tx[w].qty)
                ELSE tx' = [tx EXCEPT ![w].item = 0, ![w].n = 0, ![w].pc = "write"]
           ELSE \E k \in found :
                   IF cart_items[k].quantity + tx[w].qty > tx[w].seen
                   THEN InsufficientStock(w, "AddToCart", 0, tx[w].seen,
                                          cart_items[k].quantity + tx[w].qty)
                   ELSE tx' = [tx EXCEPT ![w].item = k,
                                  ![w].n = cart_items[k].quantity,
                                  ![w].pc = "write"]
    /\ UNCHANGED <<products, orders, users, carts, cart_items, initStock>>

\* the INSERT or the UPDATE of cart_items.  The INSERT waits for an open
\* transaction that has inserted the same key and fails on the UNIQUE
\* constraint; the UPDATE ... WHERE id = $2 waits for the row's lock and matches
\* no row when the row has been deleted
AddToCartWrite(w) ==
    /\ tx[w].op = "AddToCart"
    /\ tx[w].pc = "write"
    /\ IF tx[w].item = 0
       THEN /\ KeyFree(w, tx[w].cart, tx[w].product)
            /\ IF CartItemUnique(cart_items, tx[w].cart, tx[w].product)
               THEN tx' = [tx EXCEPT ![w].mode = "insert", ![w].pc = "touch"]
               ELSE Return(w, "AddToCart", 0, "failed to add item to cart")
       ELSE /\ ItemFree(w, tx[w].item)
            /\ tx' = [tx EXCEPT
                  ![w].mode = IF cart_items[tx[w].item] = Deleted
                              THEN "none" ELSE "update",
                  ![w].pc = "touch"]
    /\ UNCHANGED <<products, orders, users, carts, cart_items, initStock>>

\* UPDATE carts SET updated_at = NOW() WHERE id = $1: waits for the row's lock
AddToCartTouch(w) ==
    /\ tx[w].op = "AddToCart"
    /\ tx[w].pc = "touch"
    /\ CartFree(w, tx[w].cart)
    /\ tx' = [tx EXCEPT ![w].pc = "commit"]
    /\ UNCHANGED <<products, orders, users, carts, cart_items, initStock>>

\* tx.Commit: newQuantity := existingItem.Quantity + req.Quantity
AddToCartCommit(w) ==
    /\ tx[w].op = "AddToCart"
    /\ tx[w].pc = "commit"
    /\ cart_items' =
          IF tx[w].mode = "insert"
          THEN Append(cart_items, CartRow(tx[w].cart, tx[w].product, tx[w].qty))
          ELSE IF tx[w].mode = "update"
          THEN [cart_items EXCEPT ![tx[w].item].quantity = tx[w].n + tx[w].qty]
          ELSE cart_items
    /\ tx' = [tx EXCEPT ![w].pc = "get_cart"]
    /\ UNCHANGED <<products, orders, users, carts, initStock>>

\* return s.GetCart(userID): the response keeps the request and the branch taken
AddToCartGetCart(w) ==
    /\ tx[w].op = "AddToCart"
    /\ tx[w].pc = "get_cart"
    /\ tx' = [tx EXCEPT ![w] = [Idle EXCEPT !.op = "AddToCart", !.pc = "done",
                 !.result = "ok", !.user = tx[w].user, !.cart = tx[w].cart,
                 !.product = tx[w].product, !.qty = tx[w].qty,
                 !.mode = tx[w].mode, !.again = tx[w].again,
                 !.prev = tx[w].prev]]
    /\ UNCHANGED <<products, orders, users, carts, cart_items, initStock>>

AddToCart(w, cap) ==
    \/ AddToCartBegin(w, cap)
    \/ AddToCartCart(w)
    \/ AddToCartProduct(w)
    \/ AddToCartItem(w)
    \/ AddToCartWrite(w)
    \/ AddToCartTouch(w)
    \/ AddToCartCommit(w)
    \/ AddToCartGetCart(w)

\* ----------------------------------------------- CartService.UpdateCartItem
\* ids a request can name: the rows there are, deleted ones included, and one
\* id no row has
ItemIds == 1 .. Len(cart_items) + 1

\* SELECT ... FROM cart_items ci JOIN carts c ON ci.cart_id = c.id
\* WHERE ci.id = $1 AND c.user_id = $2
OwnedItem(u, k) ==
    /\ k \in DOMAIN cart_items
    /\ cart_items[k] # Deleted
    /\ cart_items[k].cart_id \in CartsOf(u)

\* the response of UpdateCartItem and RemoveFromCart keeps the caller and the
\* item id of the request, and whether the request repeats the one before it
ItemReturn(w, result) ==
    tx' = [tx EXCEPT ![w] = [Idle EXCEPT !.op = tx[w].op, !.pc = "done",
                                !.result = result, !.user = tx[w].user,
                                !.item = tx[w].item, !.qty = tx[w].qty,
                                !.again = tx[w].again]]

\* tx.Begin: the handler has parsed the item id, bound the request (quantity
\* gt=0) and taken user_id from the token
UpdateCartItemBegin(w) ==
    /\ Ready(w)
    /\ \E u \in users, k \in ItemIds, q \in Quantities :
          tx' = [tx EXCEPT ![w] = [Idle EXCEPT !.op = "UpdateCartItem",
                       !.pc = "select", !.user = u, !.item = k, !.qty = q]]
    /\ UNCHANGED <<products, orders, users, carts, cart_items, initStock>>

\* an ownership SELECT without the join on carts
ItemSelectAnyOwner(w, next) ==
    /\ tx[w].pc = "select"
    /\ LET k == tx[w].item
       IN  IF k \in DOMAIN cart_items /\ cart_items[k] # Deleted
           THEN tx' = [tx EXCEPT ![w].cart = cart_items[k].cart_id,
                                 ![w].product = cart_items[k].product_id,
                                 ![w].n = cart_items[k].quantity,
                                 ![w].pc = next]
           ELSE ItemReturn(w, "cart item not found or not owned by user")
    /\ UNCHANGED <<products, orders, users, carts, cart_items, initStock>>

\* get cart item and verify ownership: sql.ErrNoRows when the id names no row
\* or a row of another user's cart
ItemSelect(w, next) ==
    /\ tx[w].pc = "select"
    /\ LET k == tx[w].item
       IN  IF OwnedItem(tx[w].user, k)
           THEN tx' = [tx EXCEPT ![w].cart = cart_items[k].cart_id,
                                 ![w].product = cart_items[k].product_id,
                                 ![w].n = cart_items[k].quantity,
                                 ![w].pc = next]
           ELSE ItemReturn(w, "cart item not found or not owned by user")
    /\ UNCHANGED <<products, orders, users, carts, cart_items, initStock>>

UpdateCartItemSelect(w) ==
    /\ tx[w].op = "UpdateCartItem"
    /\ ItemSelect(w, "product")

\* an UpdateCartItem whose product SELECT has no is_active condition
UpdateCartItemProductAnyActive(w) ==
    /\ tx[w].op = "UpdateCartItem"
    /\ tx[w].pc = "product"
    /\ LET p == tx[w].product
       IN  IF p \notin DOMAIN products
           THEN ItemReturn(w, "product not found or inactive")
           ELSE IF tx[w].qty > products[p].stock
           THEN InsufficientStock(w, "UpdateCartItem", 0, products[p].stock,
                                  tx[w].qty)
           ELSE tx' = [tx EXCEPT ![w].pc = "write"]
    /\ UNCHANGED <<products, orders, users, carts, cart_items, initStock>>

\* SELECT id, name, price, stock FROM products WHERE id = $1 AND is_active = true
\* and the comparison req.Quantity > product.Stock
UpdateCartItemProduct(w) ==
    /\ tx[w].op = "UpdateCartItem"
    /\ tx[w].pc = "product"
    /\ LET p == tx[w].product
       IN  IF p \notin DOMAIN products \/ ~products[p].is_active
           THEN ItemReturn(w, "product not found or inactive")
           ELSE IF tx[w].qty > products[p].stock
           THEN InsufficientStock(w, "UpdateCartItem", 0, products[p].stock,
                                  tx[w].qty)
           ELSE tx' = [tx EXCEPT ![w].pc = "write"]
    /\ UNCHANGED <<products, orders, users, carts, cart_items, initStock>>

\* UPDATE cart_items SET quantity = $1 WHERE id = $2, or DELETE FROM cart_items
\* WHERE id = $1: waits for the row's lock and matches no row when the row has
\* been deleted
ItemWrite(w, mode) ==
    /\ tx[w].pc = "write"
    /\ ItemFree(w, tx[w].item)
    /\ tx' = [tx EXCEPT
          ![w].mode = IF cart_items[tx[w].item] = Deleted THEN "none" ELSE mode,
          ![w].pc = "touch"]
    /\ UNCHANGED <<products, orders, users, carts, cart_items, initStock>>

\* UPDATE carts SET updated_at = NOW() WHERE id = $1: waits for the row's lock
ItemTouch(w) ==
    /\ tx[w].pc = "touch"
    /\ CartFree(w, tx[w].cart)
    /\ tx' = [tx EXCEPT ![w].pc = "commit"]
    /\ UNCHANGED <<products, orders, users, carts, cart_items, initStock>>

\* a commit whose DELETE matches no row
ItemCommitKeepsRow(w) ==
    /\ tx[w].pc = "commit"
    /\ cart_items' =
          IF tx[w].mode = "update"
          THEN [cart_items EXCEPT ![tx[w].item].quantity = tx[w].qty]
          ELSE cart_items
    /\ tx' = [tx EXCEPT ![w].pc = "get_cart"]
    /\ UNCHANGED <<products, orders, users, carts, initStock>>

\* a commit whose update adds the requested quantity to the row
ItemCommitAdditive(w) ==
    /\ tx[w].pc = "commit"
    /\ cart_items' =
          IF tx[w].mode = "update"
          THEN [cart_items EXCEPT ![tx[w].item].quantity = @ + tx[w].qty]
          ELSE IF tx[w].mode = "delete"
          THEN [cart_items EXCEPT ![tx[w].item] = Deleted]
          ELSE cart_items
    /\ tx' = [tx EXCEPT ![w].pc = "get_cart"]
    /\ UNCHANGED <<products, orders, users, carts, initStock>>

\* tx.Commit
ItemCommit(w) ==
    /\ tx[w].pc = "commit"
    /\ cart_items' =
          IF tx[w].mode = "update"
          THEN [cart_items EXCEPT ![tx[w].item].quantity = tx[w].qty]
          ELSE IF tx[w].mode = "delete"
          THEN [cart_items EXCEPT ![tx[w].item] = Deleted]
          ELSE cart_items
    /\ tx' = [tx EXCEPT ![w].pc = "get_cart"]
    /\ UNCHANGED <<products, orders, users, carts, initStock>>

\* return s.GetCart(userID)
ItemGetCart(w) ==
    /\ tx[w].pc = "get_cart"
    /\ ItemReturn(w, "ok")
    /\ UNCHANGED <<products, orders, users, carts, cart_items, initStock>>

UpdateCartItem(w) ==
    \/ UpdateCartItemBegin(w)
    \/ /\ tx[w].op = "UpdateCartItem"
       /\ \/ UpdateCartItemSelect(w)
          \/ UpdateCartItemProduct(w)
          \/ ItemWrite(w, "update")
          \/ ItemTouch(w)
          \/ ItemCommit(w)
          \/ ItemGetCart(w)

\* ----------------------------------------------- CartService.RemoveFromCart
RemoveFromCartBegin(w) ==
    /\ Ready(w)
    /\ \E u \in users, k \in ItemIds :
          tx' = [tx EXCEPT ![w] = [Idle EXCEPT !.op = "RemoveFromCart",
                       !.pc = "select", !.user = u, !.item = k,
                       !.again = /\ tx[w].op = "RemoveFromCart"
                                 /\ tx[w].pc = "done"
                                 /\ tx[w].user = u
                                 /\ tx[w].item = k
                                 /\ tx[w].result = "ok"]]
    /\ UNCHANGED <<products, orders, users, carts, cart_items, initStock>>

RemoveFromCartSelect(w) ==
    /\ tx[w].op = "RemoveFromCart"
    /\ ItemSelect(w, "write")

RemoveFromCart(w) ==
    \/ RemoveFromCartBegin(w)
    \/ /\ tx[w].op = "RemoveFromCart"
       /\ \/ RemoveFromCartSelect(w)
          \/ ItemWrite(w, "delete")
          \/ ItemTouch(w)
          \/ ItemCommit(w)
          \/ ItemGetCart(w)

\* ------------------------------------------------------- CartService.GetCart
RECURSIVE TotalItems(_, _)
\* totalItems += item.Quantity, first k rows
TotalItems(items, k) ==
    IF k = 0 THEN 0 ELSE TotalItems(items, k - 1) + items[k].quantity

RECURSIVE CartLines(_, _)
\* the rows of cart c among the first k rows of cart_items, oldest first, as
\* CreateOrderItemRequest lines
CartLines(c, k) ==
    IF k = 0 THEN << >>
    ELSE IF cart_items[k].cart_id = c
         THEN Append(CartLines(c, k - 1),
                     [product_id |-> cart_items[k].product_id,
                      quantity |-> cart_items[k].quantity])
         ELSE CartLines(c, k - 1)

\* the handler has taken user_id from the token
GetCartBegin(w) ==
    /\ Ready(w)
    /\ \E u \in users :
          tx' = [tx EXCEPT ![w] = [Idle EXCEPT !.op = "GetCart",
                     !.pc = "view_cart", !.user = u]]
    /\ UNCHANGED <<products, orders, users, carts, cart_items, initStock>>

GetCartCart(w) ==
    /\ tx[w].op = "GetCart"
    /\ GetOrCreateCart(w, "view_cart", "view_cart_new", "view_items")

\* totals that take each line once, whatever its quantity
GetCartItemsPerLine(w) ==
    /\ tx[w].op = "GetCart"
    /\ tx[w].pc = "view_items"
    /\ LET lines == CartLines(tx[w].cart, Len(cart_items))
           prices == [j \in DOMAIN lines |-> products[lines[j].product_id].price]
           ones == [j \in DOMAIN lines |-> [quantity |-> 1]]
       IN  tx' = [tx EXCEPT ![w].pc = "done", ![w].result = "ok",
                     ![w].items = lines,
                     ![w].n = TotalItems(ones, Len(lines)),
                     ![w].total = TotalAmount(ones, prices, Len(lines))]
    /\ UNCHANGED <<products, orders, users, carts, cart_items, initStock>>

\* SELECT ... FROM cart_items ci JOIN products p ON ci.product_id = p.id
\* WHERE ci.cart_id = $1 ORDER BY ci.created_at ASC on s.db, and the loop over
\* its rows that adds up totalItems and totalAmount from p.price
GetCartItems(w) ==
    /\ tx[w].op = "GetCart"
    /\ tx[w].pc = "view_items"
    /\ LET lines == CartLines(tx[w].cart, Len(cart_items))
           prices == [j \in DOMAIN lines |-> products[lines[j].product_id].price]
       IN  tx' = [tx EXCEPT ![w].pc = "done", ![w].result = "ok",
                     ![w].items = lines,
                     ![w].n = TotalItems(lines, Len(lines)),
                     ![w].total = TotalAmount(lines, prices, Len(lines))]
    /\ UNCHANGED <<products, orders, users, carts, cart_items, initStock>>

GetCart(w) ==
    \/ GetCartBegin(w)
    \/ GetCartCart(w)
    \/ GetCartItems(w)

\* ----------------------------------------------------- CartService.ClearCart
\* ClearCart serves DELETE /cart and runs at the end of CheckoutCart
ClearOps == {"CheckoutCart", "ClearCart"}

\* the handler has taken user_id from the token
ClearCartBegin(w) ==
    /\ Ready(w)
    /\ \E u \in users :
          tx' = [tx EXCEPT ![w] = [Idle EXCEPT !.op = "ClearCart",
                     !.pc = "clear_cart", !.user = u]]
    /\ UNCHANGED <<products, orders, users, carts, cart_items, initStock>>

ClearCartCart(w) ==
    /\ tx[w].op \in ClearOps
    /\ GetOrCreateCart(w, "clear_cart", "clear_cart_new", "clear_items")

\* a ClearCart whose DELETE removes nothing
ClearCartItemsKept(w) ==
    /\ tx[w].op \in ClearOps
    /\ tx[w].pc = "clear_items"
    /\ tx' = [tx EXCEPT ![w].pc = "clear_touch"]
    /\ UNCHANGED <<products, orders, users, carts, cart_items, initStock>>

\* DELETE FROM cart_items WHERE cart_id = $1 (autocommit): waits for the locks
\* of the rows it deletes and does not see rows of open transactions; n is the
\* number of rows of the sql.Result, which the code discards
ClearCartItems(w) ==
    /\ tx[w].op \in ClearOps
    /\ tx[w].pc = "clear_items"
    /\ \A k \in DOMAIN cart_items :
          cart_items[k].cart_id = tx[w].cart => ItemFree(w, k)
    /\ cart_items' = [k \in DOMAIN cart_items |->
          IF cart_items[k].cart_id = tx[w].cart THEN Deleted ELSE cart_items[k]]
    /\ tx' = [tx EXCEPT ![w].pc = "clear_touch",
                        ![w].n = Cardinality({ k \in DOMAIN cart_items :
                                     cart_items[k].cart_id = tx[w].cart })]
    /\ UNCHANGED <<products, orders, users, carts, initStock>>

\* UPDATE carts SET updated_at = NOW() WHERE id = $1 (autocommit)
ClearCartTouch(w) ==
    /\ tx[w].op \in ClearOps
    /\ tx[w].pc = "clear_touch"
    /\ CartFree(w, tx[w].cart)
    /\ Return(w, tx[w].op, tx[w].id, "ok")
    /\ UNCHANGED <<products, orders, users, carts, cart_items, initStock>>

ClearCart(w) ==
    \/ ClearCartBegin(w)
    \/ ClearCartCart(w)
    \/ ClearCartItems(w)
    \/ ClearCartTouch(w)

\* -------------------------------------------------- CartService.CheckoutCart
CheckoutCartBegin(w, cap) ==
    /\ Ready(w)
    /\ Len(orders) + OpenCreates < cap
    /\ \E u \in users :
          tx' = [tx EXCEPT ![w] = [Idle EXCEPT !.op = "CheckoutCart",
                     !.pc = "cart", !.user = u]]
    /\ UNCHANGED <<products, orders, users, carts, cart_items, initStock>>

\* s.GetCart(userID): GetOrCreateCart
CheckoutCartCart(w) ==
    /\ tx[w].op = "CheckoutCart"
    /\ GetOrCreateCart(w, "cart", "cart_new", "view")

\* a checkout that answers an empty cart with success
CheckoutCartViewEmptyOk(w) ==
    /\ tx[w].op = "CheckoutCart"
    /\ tx[w].pc = "view"
    /\ LET lines == CartLines(tx[w].cart, Len(cart_items))
       IN  IF lines = << >>
           THEN Return(w, "CheckoutCart", 0, "ok")
           ELSE tx' = [tx EXCEPT ![w].items = lines, ![w].i = 1,
                                 ![w].pc = "validate"]
    /\ UNCHANGED <<products, orders, users, carts, cart_items, initStock>>

\* s.GetCart(userID): the items query; then the emptiness test and the
\* conversion of the cart items to the lines of a CreateOrderRequest
CheckoutCartView(w) ==
    /\ tx[w].op = "CheckoutCart"
    /\ tx[w].pc = "view"
    /\ LET lines == CartLines(tx[w].cart, Len(cart_items))
       IN  IF lines = << >>
           THEN Return(w, "CheckoutCart", 0, "cart is empty")
           ELSE tx' = [tx EXCEPT ![w].items = lines, ![w].i = 1,
                                 ![w].pc = "validate"]
    /\ UNCHANGED <<products, orders, users, carts, cart_items, initStock>>

\* between CheckoutCartView and ClearCart the request runs the steps of
\* CreateOrder, which serve both operations
CheckoutCart(w, cap) ==
    \/ CheckoutCartBegin(w, cap)
    \/ CheckoutCartCart(w)
    \/ CheckoutCartView(w)
    \/ ClearCartCart(w)
    \/ ClearCartItems(w)
    \/ ClearCartTouch(w)

\* ----------------------------------------------------- OrderService.GetOrder
GetOrderBegin(w) ==
    /\ Ready(w)
    /\ \E id \in OrderIds :
          tx' = [tx EXCEPT ![w] = [Idle EXCEPT !.op = "GetOrder", !.pc = "order",
                                      !.id = id]]
    /\ UNCHANGED <<products, orders, users, carts, cart_items, initStock>>

\* SELECT ... FROM orders o JOIN users u ... WHERE o.id = $1 on s.db:
\* sql.ErrNoRows gives "order not found"
GetOrderRow(w) ==
    /\ tx[w].op = "GetOrder"
    /\ tx[w].pc = "order"
    /\ IF tx[w].id \in DOMAIN orders
       THEN tx' = [tx EXCEPT ![w].pc = "order_items",
                             ![w].user = orders[tx[w].id].user_id,
                             ![w].status = orders[tx[w].id].status,
                             ![w].total = orders[tx[w].id].total_amount]
       ELSE Return(w, "GetOrder", tx[w].id, "order not found")
    /\ UNCHANGED <<products, orders, users, carts, cart_items, initStock>>

\* SELECT ... FROM order_items oi JOIN products p ... WHERE oi.order_id = $1,
\* a second statement on s.db; the response is the order row of the first
\* statement with the items of the second
GetOrderItems(w) ==
    /\ tx[w].op = "GetOrder"
    /\ tx[w].pc = "order_items"
    /\ tx' = [tx EXCEPT ![w].pc = "done", ![w].result = "ok",
                        ![w].items = orders[tx[w].id].items]
    /\ UNCHANGED <<products, orders, users, carts, cart_items, initStock>>

GetOrder(w) ==
    \/ GetOrderBegin(w)
    \/ GetOrderRow(w)
    \/ GetOrderItems(w)

\* -------------------------------------------------- ProductService.GetProduct
GetProductBegin(w) ==
    /\ Ready(w)
    /\ \E p \in ProductIds :
          tx' = [tx EXCEPT ![w] = [Idle EXCEPT !.op = "GetProduct",
                                      !.pc = "select", !.product = p]]
    /\ UNCHANGED <<products, orders, users, carts, cart_items, initStock>>

\* a SELECT that also sees the stock updates of transactions still open
GetProductSelectUncommitted(w) ==
    /\ tx[w].op = "GetProduct"
    /\ tx[w].pc = "select"
    /\ LET p == tx[w].product
           pending(v) == IF tx[v].op \in CreateOps /\ HoldsProduct(v, p)
                         THEN SumQty(tx[v].items, tx[v].i - 1, p) ELSE 0
       IN  IF p \in DOMAIN products
           THEN \E v \in DOMAIN tx :
                   /\ \A u \in DOMAIN tx : pending(u) <= pending(v)
                   /\ tx' = [tx EXCEPT ![w].pc = "done", ![w].result = "ok",
                                ![w].available = products[p].stock - pending(v)]
           ELSE Return(w, "GetProduct", 0, "product not found")
    /\ UNCHANGED <<products, orders, users, carts, cart_items, initStock>>

\* SELECT ... FROM products p LEFT JOIN categories c ... WHERE p.id = $1 on
\* s.db: the committed row; sql.ErrNoRows gives "product not found"
GetProductSelect(w) ==
    /\ tx[w].op = "GetProduct"
    /\ tx[w].pc = "select"
    /\ IF tx[w].product \in DOMAIN products
       THEN tx' = [tx EXCEPT ![w].pc = "done", ![w].result = "ok",
                             ![w].available = products[tx[w].product].stock]
       ELSE Return(w, "GetProduct", 0, "product not found")
    /\ UNCHANGED <<products, orders, users, carts, cart_items, initStock>>

GetProduct(w) ==
    \/ GetProductBegin(w)
    \/ GetProductSelect(w)

\* --------------------------------------------------- OrderHandler.ListOrders
Roles == {"admin", "customer"}

\* orders.created_at DEFAULT NOW(): orders are stamped in the order of their ids
CreatedAt(o) == o

\* the query parameters the handler parses: page and limit are kept when they
\* are positive, user_id when it parses as an unsigned number
OrderQuery ==
    [user_id : Optional(1 .. NumOwners),
     status : Optional({"cancelled"}),
     start_date : Optional({MaxOrders}), end_date : Optional({1}),
     page : {0, 2}, limit : {0, 1, MaxLimit + 1}]

\* a handler that takes the user filter from the query for every caller
FilterFromQuery(u, role, q) ==
    [UserID |-> q.user_id,
     Status |-> q.status, StartDate |-> q.start_date, EndDate |-> q.end_date,
     Page |-> q.page, Limit |-> q.limit]

\* the OrderFilter the handler hands to the service: an admin may name any
\* user, every other caller gets the own user id
OrderFilter(u, role, q) ==
    [UserID |-> IF role = "admin" THEN q.user_id ELSE {u},
     Status |-> q.status, StartDate |-> q.start_date, EndDate |-> q.end_date,
     Page |-> q.page, Limit |-> q.limit]

\* the defaults OrderService.ListOrders sets
PageOf(filter) == IF filter.Page <= 0 THEN 1 ELSE filter.Page

LimitOf(filter) ==
    IF filter.Limit <= 0 THEN DefaultLimit
    ELSE IF filter.Limit > MaxLimit THEN MaxLimit ELSE filter.Limit

\* the WHERE clause: one condition for every field of the filter that is set
Matching(filter) ==
    { o \in DOMAIN orders :
        /\ \A u \in filter.UserID : orders[o].user_id = u
        /\ \A st \in filter.Status : orders[o].status = st
        /\ \A d \in filter.StartDate : CreatedAt(o) >= d
        /\ \A d \in filter.EndDate : CreatedAt(o) <= d }

\* ORDER BY o.created_at DESC
RECURSIVE Newest(_)
Newest(S) ==
    IF S = {} THEN << >>
    ELSE LET o == CHOOSE x \in S : \A y \in S : CreatedAt(x) >= CreatedAt(y)
         IN  <<o>> \o Newest(S \ {o})

\* a page query that leaves out OFFSET
LimitOnly(rows, limit, offset) ==
    SubSeq(rows, 1, IF limit < Len(rows) THEN limit ELSE Len(rows))

\* LIMIT $n OFFSET $m
LimitOffset(rows, limit, offset) ==
    SubSeq(rows, offset + 1,
           IF offset + limit < Len(rows) THEN offset + limit ELSE Len(rows))

\* the handler has parsed the query and taken user_id and user_role from the
\* token
ListOrdersBegin(w) ==
    /\ Ready(w)
    /\ \E u \in users, role \in Roles, q \in OrderQuery :
          tx' = [tx EXCEPT ![w] = [Idle EXCEPT !.op = "ListOrders",
                     !.pc = "count", !.user = u, !.role = role, !.query = q]]
    /\ UNCHANGED <<products, orders, users, carts, cart_items, initStock>>

\* SELECT COUNT(*) FROM orders o WHERE ...
ListOrdersCount(w) ==
    /\ tx[w].op = "ListOrders"
    /\ tx[w].pc = "count"
    /\ LET filter == OrderFilter(tx[w].user, tx[w].role, tx[w].query)
           total == Cardinality(Matching(filter))
       IN  tx' = [tx EXCEPT ![w].total = total,
                            ![w].pages = (total + LimitOf(filter) - 1)
                                            \div LimitOf(filter),
                            ![w].pc = "query"]
    /\ UNCHANGED <<products, orders, users, carts, cart_items, initStock>>

\* SELECT ... FROM orders o JOIN users u ... ORDER BY ... LIMIT ... OFFSET ...:
\* the response keeps the caller, the query and the ids of the orders returned
ListOrdersQuery(w) ==
    /\ tx[w].op = "ListOrders"
    /\ tx[w].pc = "query"
    /\ LET filter == OrderFilter(tx[w].user, tx[w].role, tx[w].query)
           rows == Newest({ o \in Matching(filter) : orders[o].user_id \in users })
       IN  tx' = [tx EXCEPT ![w] = [Idle EXCEPT !.op = "ListOrders",
                     !.pc = "done", !.result = "ok", !.user = tx[w].user,
                     !.role = tx[w].role, !.query = tx[w].query,
                     !.total = tx[w].total, !.pages = tx[w].pages,
                     !.page = PageOf(filter), !.limit = LimitOf(filter),
                     !.list = LimitOffset(rows, LimitOf(filter),
                                  (PageOf(filter) - 1) * LimitOf(filter))]]
    /\ UNCHANGED <<products, orders, users, carts, cart_items, initStock>>

ListOrders(w) ==
    \/ ListOrdersBegin(w)
    \/ ListOrdersCount(w)
    \/ ListOrdersQuery(w)

\* ------------------------------------------------------------ storage errors
\* any statement, the commit included, can fail (connection loss, deadlock
\* victim, cancelled context): the handler returns the error and the deferred
\* tx.Rollback discards the open transaction
StorageFailure(w) ==
    /\ Open(w)
    /\ Fail(w, "storage error")
    /\ UNCHANGED <<products, orders, users, carts, cart_items, initStock>>

\* ------------------------------------------------------------ specifications
InitProducts(stocks, actives) ==
    [p \in DOMAIN stocks |->
        [stock |-> stocks[p], price |-> 1, is_active |-> actives[p]]]

InitWith(prods, us, ws, cs, rows) ==
    /\ products = prods
    /\ orders = << >>
    /\ users = us
    /\ carts = cs
    /\ cart_items = rows
    /\ tx = [w \in ws |-> Idle]
    /\ initStock = StockOf(prods)

AllActive(ps) == [p \in ps |-> TRUE]

\* concurrent CreateOrder requests over a catalogue with every stock level and
\* active flag
ReserveInit ==
    \E stocks \in [Products -> 0 .. MaxStock], actives \in [Products -> BOOLEAN] :
        InitWith(InitProducts(stocks, actives), {1}, Workers, << >>, << >>)

ReserveNext ==
    \E w \in DOMAIN tx :
        \/ CreateOrder(w, MaxOrders)
        \/ StorageFailure(w)

ReserveSpec == ReserveInit /\ [][ReserveNext]_vars

\* one request at a time: a single worker
SeqInit ==
    \E stocks \in [Products -> 0 .. MaxStock] :
        InitWith(InitProducts(stocks, AllActive(Products)), {1}, {1}, << >>, << >>)

\* one order placed and cancelled, nothing else touching stock
RoundTripNext ==
    \E w \in DOMAIN tx :
        \/ CreateOrder(w, OneOrder)
        \/ CancelOrder(w)

RoundTripSpec == SeqInit /\ [][RoundTripNext]_vars

\* the order life cycle, one request at a time
LifeCycleNext ==
    \E w \in DOMAIN tx :
        \/ CreateOrder(w, OneOrder)
        \/ CancelOrder(w)
        \/ UpdateOrderStatus(w)

LifeCycleSpec == SeqInit /\ [][LifeCycleNext]_vars

\* concurrent cancellations of one order
CancelRaceInit ==
    \E stocks \in [Products -> 0 .. MaxStock] :
        InitWith(InitProducts(stocks, AllActive(Products)), {1}, Workers, << >>, << >>)

CancelRaceSpec == CancelRaceInit /\ [][RoundTripNext]_vars

\* every operation that writes stock, interleaved, on one product; the cart of
\* the user is empty or holds the product
StockInit ==
    \E stocks \in [{1} -> {MaxStock}], rows \in {<< >>, <<CartRow(1, 1, MaxQty)>>} :
        InitWith(InitProducts(stocks, AllActive({1})), {1}, Workers, <<1>>, rows)

StockNext ==
    \E w \in DOMAIN tx :
        \/ CreateOrder(w, OneOrder)
        \/ CheckoutCart(w, OneOrder)
        \/ CancelOrder(w)
        \/ UpdateStock(w)
        \/ UpdateProduct(w, StockRequests)

StockSpec == StockInit /\ [][StockNext]_vars

\* orders and catalogue prices changing side by side
PriceInit ==
    \E stocks \in [{1} -> {MaxStock}] :
        InitWith(InitProducts(stocks, AllActive({1})), {1}, Workers, << >>, << >>)

PriceNext ==
    \E w \in DOMAIN tx :
        \/ CreateOrder(w, OneOrder)
        \/ UpdateProduct(w, PriceRequests)
        \/ UpdateOrderStatus(w)
        \/ CancelOrder(w)

PriceSpec == PriceInit /\ [][PriceNext]_vars

\* concurrent AddToCart requests
CartInit ==
    \E stocks \in [Products -> {MaxStock, StockCap}] :
        InitWith(InitProducts(stocks, AllActive(Products)), 1 .. NumUsers, Workers,
                 << >>, << >>)

CartNext ==
    \E w \in DOMAIN tx :
        \/ AddToCart(w, MaxCartItems)
        \/ StorageFailure(w)

CartSpec == CartInit /\ [][CartNext]_vars

\* the cart of one user filled one request at a time while stock is adjusted
CartSeqNext ==
    \E w \in DOMAIN tx :
        \/ AddToCart(w, MaxCartItems)
        \/ UpdateStock(w)

CartSeqSpec == SeqInit /\ [][CartSeqNext]_vars

\* carts filled and checked out one request at a time, while the catalogue
\* (price, stock, active flag) is edited
CheckoutSeqInit ==
    \E stocks \in [Products -> {MaxStock}] :
        InitWith(InitProducts(stocks, AllActive(Products)), {1}, {1}, << >>, << >>)

CheckoutSeqNext ==
    \E w \in DOMAIN tx :
        \/ AddToCart(w, NumProducts)
        \/ CheckoutCart(w, OneOrder)
        \/ CreateOrderSteps(w)
        \/ UpdateProduct(w, FieldRequests)

CheckoutSeqSpec == CheckoutSeqInit /\ [][CheckoutSeqNext]_vars

\* requests that set is_active, or nothing
ActiveRequests ==
    { r \in UpdateProductRequest : r.price = {} /\ r.stock = {} }

\* one request at a time over a catalogue whose products are switched on and
\* off: cart operations, orders and checkouts
InactiveInit ==
    \E stocks \in [Products -> 1 .. MaxStock], actives \in [Products -> BOOLEAN] :
        InitWith(InitProducts(stocks, actives), {1}, {1}, << >>, << >>)

InactiveNext ==
    \E w \in DOMAIN tx :
        \/ AddToCart(w, NumProducts)
        \/ UpdateCartItem(w)
        \/ CreateOrder(w, OneOrder)
        \/ CheckoutCart(w, OneOrder)
        \/ UpdateProduct(w, ActiveRequests)

InactiveSpec == InactiveInit /\ [][InactiveNext]_vars

\* two users, each with a cart that holds one row, and concurrent requests of
\* either user that add, update and remove cart items
OwnerInit ==
    \E stocks \in [{1} -> {MaxStock}] :
        InitWith(InitProducts(stocks, AllActive({1})), 1 .. NumOwners, Workers,
                 [u \in 1 .. NumOwners |-> u],
                 [u \in 1 .. NumOwners |-> CartRow(u, 1, 1)])

OwnerNext ==
    \E w \in DOMAIN tx :
        \/ AddToCart(w, MaxCartItems)
        \/ UpdateCartItem(w)
        \/ RemoveFromCart(w)

OwnerSpec == OwnerInit /\ [][OwnerNext]_vars

\* two users who place and cancel orders, and callers of either role who list
\* orders with every filter
ListInit ==
    \E stocks \in [{1} -> {MaxStock}] :
        InitWith(InitProducts(stocks, AllActive({1})), 1 .. NumOwners, {1},
                 << >>, << >>)

ListNext ==
    \E w \in DOMAIN tx :
        \/ CreateOrder(w, MaxOrders)
        \/ CancelOrder(w)
        \/ ListOrders(w)

ListSpec == ListInit /\ [][ListNext]_vars

\* one user with a cart that holds a row, whose requests add and update cart
\* items while orders for the same product commit
LiveStockInit ==
    \E stocks \in [{1} -> {MaxStock}] :
        InitWith(InitProducts(stocks, AllActive({1})), {1}, Workers, <<1>>,
                 <<CartRow(1, 1, 1)>>)

LiveStockNext ==
    \E w \in DOMAIN tx :
        \/ AddToCart(w, NumProducts)
        \/ UpdateCartItem(w)
        \/ CreateOrder(w, OneOrder)

LiveStockSpec == LiveStockInit /\ [][LiveStockNext]_vars

\* checkouts of a cart that holds a row, with statements that fail
ClearFailInit ==
    \E stocks \in [Products -> {MaxStock}], q \in Quantities :
        InitWith(InitProducts(stocks, AllActive(Products)), {1}, {1}, <<1>>,
                 <<CartRow(1, 1, q)>>)

ClearFailNext ==
    \E w \in DOMAIN tx :
        \/ AddToCart(w, NumProducts)
        \/ CheckoutCart(w, OneOrder)
        \/ CreateOrderSteps(w)
        \/ StorageFailure(w)

ClearFailSpec == ClearFailInit /\ [][ClearFailNext]_vars

\* checkouts of one user's cart while requests of the same user add and update
\* cart items
CheckoutRaceNext ==
    \E w \in DOMAIN tx :
        \/ AddToCart(w, NumProducts)
        \/ UpdateCartItem(w)
        \/ CheckoutCart(w, OneOrder)
        \/ CreateOrderSteps(w)

CheckoutRaceSpec == LiveStockInit /\ [][CheckoutRaceNext]_vars

\* two checkouts of one user's cart, which holds a row when they start
DoubleCheckoutNext ==
    \E w \in DOMAIN tx :
        \/ CheckoutCart(w, MaxOrders)
        \/ CreateOrderSteps(w)

DoubleCheckoutSpec == LiveStockInit /\ [][DoubleCheckoutNext]_vars

\* orders created while other requests read orders and products
ReadNext ==
    \E w \in DOMAIN tx :
        \/ CreateOrder(w, MaxOrders)
        \/ GetOrder(w)
        \/ GetProduct(w)

ReadSpec == PriceInit /\ [][ReadNext]_vars

\* two users whose carts are filled, emptied row by row and cleared one
\* request at a time, beside an order
CartFrameInit ==
    \E stocks \in [Products -> {MaxStock}] :
        InitWith(InitProducts(stocks, AllActive(Products)), 1 .. NumOwners, {1},
                 << >>, << >>)

CartFrameNext ==
    \E w \in DOMAIN tx :
        \/ AddToCart(w, NumProducts)
        \/ RemoveFromCart(w)
        \/ ClearCart(w)
        \/ CreateOrder(w, OneOrder)

CartFrameSpec == CartFrameInit /\ [][CartFrameNext]_vars

\* a cart filled and viewed and an order placed, one request at a time, while
\* catalogue prices change
ViewNext ==
    \E w \in DOMAIN tx :
        \/ AddToCart(w, NumProducts)
        \/ GetCart(w)
        \/ CreateOrder(w, OneOrder)
        \/ UpdateProduct(w, PriceRequests)

ViewSpec == CheckoutSeqInit /\ [][ViewNext]_vars

\* the order life cycle, one request at a time, with callers who own the order
\* and callers who do not
CallerSpec == ListInit /\ [][LifeCycleNext]_vars

\* the orders of two users placed, cancelled and moved between statuses one
\* request at a time, and the statistics over them
StatisticsNext ==
    \E w \in DOMAIN tx :
        \/ CreateOrder(w, MaxOrders)
        \/ CancelOrder(w)
        \/ UpdateOrderStatus(w)
        \/ GetOrderStatistics(w)

StatisticsSpec == ListInit /\ [][StatisticsNext]_vars

\* products deleted while carts and an order refer to them, one request at a
\* time
DeleteNext ==
    \E w \in DOMAIN tx :
        \/ AddToCart(w, NumProducts)
        \/ CreateOrder(w, OneOrder)
        \/ DeleteProduct(w)

DeleteSpec == CheckoutSeqInit /\ [][DeleteNext]_vars

\* ------------------------------------------------------------------ claims
RECURSIVE Reserved(_, _)
\* total quantity of product p in the first n committed orders
Reserved(n, p) ==
    IF n = 0 THEN 0
    ELSE Reserved(n - 1, p) + SumQty(orders[n].items, Len(orders[n].items), p)

Returns(w) == Open(w) /\ tx'[w].pc = "done"

\* C1: no overselling. Whatever CreateOrder requests run, one after another or
\* interleaved, the quantities of a product in the orders that committed never
\* add up to more than the stock S the product started with.
C1_NoOverselling ==
    \A p \in DOMAIN products : Reserved(Len(orders), p) <= initStock[p]

\* C1 witness: two orders have committed and between them they took the whole
\* stock of a product, while a concurrent request that had passed the stock
\* comparison lost the race and was refused by its first stock update.
C1_Witness ==
    /\ Len(orders) = 2
    /\ \E p \in DOMAIN products :
          initStock[p] > 0 /\ Reserved(2, p) = initStock[p]
    /\ \E w \in DOMAIN tx :
          /\ tx[w].pc = "done"
          /\ tx[w].result = "failed to update product stock"
          /\ tx[w].i = 1

\* the step of worker w commits one whole order: the order row with one item
\* per request line, and every line's quantity taken from stock
CommitsWholeOrder(w) ==
    /\ tx[w].op \in CreateOps
    /\ tx[w].pc = "commit"
    /\ tx'[w].pc = "get_order"
    /\ Len(orders') = Len(orders) + 1
    /\ \A o \in DOMAIN orders : orders'[o] = orders[o]
    /\ Len(orders'[Len(orders')].items) = Len(tx[w].items)
    /\ \A p \in DOMAIN products :
          products'[p].stock =
              products[p].stock - SumQty(tx[w].items, Len(tx[w].items), p)

\* C2: CreateOrder is all-or-nothing. The only steps that change a product's
\* stock or write an order or order item are the commits of whole orders; so
\* a request that is refused at any line (product missing or inactive, stock
\* below the quantity) or fails at any later step (CHECK violation, storage
\* error) changes nothing, whatever its earlier lines were.
C2_AllOrNothing ==
    [][ (products' # products \/ orders' # orders)
            => \E w \in DOMAIN tx : CommitsWholeOrder(w) ]_vars

\* C2 witness: a request was refused at its second line, after a valid first
\* line, and stock is what it was and there is no order.
C2_Witness ==
    /\ orders = << >>
    /\ StockOf(products) = initStock
    /\ \E w \in DOMAIN tx :
          /\ tx[w].pc = "done"
          /\ tx[w].op = "CreateOrder"
          /\ tx[w].result \in {"insufficient stock", "product not found or inactive"}
          /\ tx[w].i = 2

\* C3: cancel restores exactly what create consumed. With one order O placed
\* and nothing but CreateOrder(O) and CancelOrder(O) changing stock, after the
\* successful CancelOrder(O) every product's stock equals its stock before
\* CreateOrder(O), whatever the lines of O (several may name one product).
C3_CancelRestoresCreate ==
    \A w \in DOMAIN tx :
        (/\ tx[w].pc = "done"
         /\ tx[w].op = "CancelOrder"
         /\ tx[w].result = "ok"
         /\ Len(orders) = 1)
            => StockOf(products) = initStock

Cancellable == {"pending", "confirmed", "shipped"}

\* C4: double cancel is rejected. A CancelOrder of a cancellable order returns
\* success and leaves the order cancelled; the same CancelOrder repeated right
\* after it returns "order is already cancelled" and changes no stock and no
\* order, so stock is incremented only once.
C4_DoubleCancelRejected ==
    [][ \A w \in DOMAIN tx :
          (tx[w].op = "CancelOrder" /\ Returns(w)) =>
             /\ (tx[w].id \in DOMAIN orders /\ orders[tx[w].id].status \in Cancellable)
                   => /\ tx'[w].result = "ok"
                      /\ orders'[tx[w].id].status = "cancelled"
             /\ tx[w].again
                   => /\ tx'[w].result = "order is already cancelled"
                      /\ products' = products
                      /\ orders' = orders ]_vars

\* C4 witness: the second of two CancelOrder calls in a row has returned
\* "order is already cancelled".
C4_Witness ==
    \E w \in DOMAIN tx :
        /\ tx[w].pc = "done"
        /\ tx[w].op = "CancelOrder"
        /\ tx[w].again
        /\ tx[w].result = "order is already cancelled"
        /\ orders[tx[w].id].status = "cancelled"

\* C5: stock is never double-released under concurrency. In runs of
\* CreateOrder and CancelOrder alone, with CancelOrder calls on the same order
\* interleaved in any way, at most one of them commits a stock increment: no
\* CancelOrder commits on an order that a CancelOrder has already cancelled,
\* and so no product's stock rises above the level it started from.
C5_NoDoubleRelease ==
    /\ \A p \in DOMAIN products : products[p].stock <= initStock[p]
    /\ \A w \in DOMAIN tx :
          (tx[w].op = "CancelOrder" /\ tx[w].pc = "commit")
              => orders[tx[w].id].status # "cancelled"

\* C6: delivered and cancelled are absorbing. No step of any operation changes
\* the status of an order whose status is delivered or cancelled.
C6_TerminalAbsorbing ==
    [][ \A o \in DOMAIN orders :
          orders[o].status \in {"delivered", "cancelled"}
              => orders'[o].status = orders[o].status ]_vars

\* C7: CancelOrder legality. It returns "order not found" for an absent order,
\* "order is already cancelled" for a cancelled one and "cannot cancel
\* delivered order" for a delivered one, changing no status and no stock; from
\* pending, confirmed or shipped it succeeds and in one step sets the status to
\* cancelled and adds every line item's quantity back to its product's stock.
C7_CancelLegality ==
    [][ \A w \in DOMAIN tx :
          (tx[w].op = "CancelOrder" /\ Returns(w)) =>
             LET id == tx[w].id
             IN  IF id \notin DOMAIN orders
                 THEN /\ tx'[w].result = "order not found"
                      /\ products' = products /\ orders' = orders
                 ELSE IF orders[id].status = "cancelled"
                 THEN /\ tx'[w].result = "order is already cancelled"
                      /\ products' = products /\ orders' = orders
                 ELSE IF orders[id].status = "delivered"
                 THEN /\ tx'[w].result = "cannot cancel delivered order"
                      /\ products' = products /\ orders' = orders
                 ELSE /\ tx'[w].result = "ok"
                      /\ orders' = [orders EXCEPT ![id].status = "cancelled"]
                      /\ \A p \in DOMAIN products :
                            products'[p].stock = products[p].stock +
                                SumQty(orders[id].items, Len(orders[id].items), p) ]_vars

StockFailures ==
    {"failed to update product stock", "failed to update stock",
     "failed to update product"}

\* the step of worker w is a statement that would take stock below zero
WouldGoNegative(w) ==
    \/ /\ tx[w].op \in CreateOps
       /\ tx[w].pc = "items"
       /\ tx'[w].pc # "items" \/ tx'[w].i # tx[w].i
       /\ tx'[w].result # "storage error"
       /\ LET p == tx[w].items[tx[w].i].product_id
          IN  products[p].stock - SumQty(tx[w].items, tx[w].i, p) < 0
    \/ /\ tx[w].op = "UpdateStock"
       /\ Returns(w)
       /\ tx'[w].result # "storage error"
       /\ tx[w].id \in DOMAIN products
       /\ products[tx[w].id].stock + tx[w].qty < 0
    \/ /\ tx[w].op = "UpdateProduct"
       /\ tx[w].pc = "update"
       /\ Returns(w)
       /\ tx'[w].result # "storage error"
       /\ \E x \in tx[w].req.stock : x < 0

\* C8: stock is non-negative in every reachable state. Under every
\* interleaving of CreateOrder, CheckoutCart, CancelOrder, UpdateStock with a
\* delta of either sign and UpdateProduct with any stock value, every product's
\* stock is an integer >= 0; a statement that would take it below zero makes
\* its operation fail, and an operation that fails so leaves stock unchanged.
C8_StockNonNegative ==
    /\ [](\A p \in DOMAIN products : products[p].stock \in Nat)
    /\ [][ \A w \in DOMAIN tx :
             /\ WouldGoNegative(w) =>
                   tx'[w].pc = "done" /\ tx'[w].result \in StockFailures
             /\ (Returns(w) /\ tx'[w].result \in StockFailures) =>
                   products' = products ]_vars

\* C8 witness: with stock at zero, a negative UpdateStock has been refused and
\* so has the stock update of a checkout that had passed the stock comparison.
C8_Witness ==
    /\ \A p \in DOMAIN products : products[p].stock = 0
    /\ \E w \in DOMAIN tx :
          /\ tx[w].pc = "done"
          /\ tx[w].op = "UpdateStock"
          /\ tx[w].result = "failed to update stock"
    /\ \E w \in DOMAIN tx :
          /\ tx[w].pc = "done"
          /\ tx[w].op = "CheckoutCart"
          /\ tx[w].result = "failed to update product stock"

\* C9: price snapshot immutability. No step of any operation (a change of the
\* catalogue price, UpdateOrderStatus and CancelOrder included) changes the
\* price of an item of an existing order, or the order's total_amount.
C9_PriceSnapshot ==
    [][ \A o \in DOMAIN orders :
          /\ orders'[o].total_amount = orders[o].total_amount
          /\ \A j \in DOMAIN orders[o].items :
                orders'[o].items[j].price = orders[o].items[j].price ]_vars

\* C9 witness: an order has been placed, then the catalogue price of its
\* product has changed and the order has been cancelled, and the order still
\* carries the old price.
C9_Witness ==
    \E o \in DOMAIN orders :
        /\ orders[o].status = "cancelled"
        /\ \E j \in DOMAIN orders[o].items :
              /\ orders[o].items[j].price # products[orders[o].items[j].product_id].price
              /\ orders[o].total_amount >= orders[o].items[j].price
        /\ \E w \in DOMAIN tx :
              tx[w].pc = "done" /\ tx[w].op = "UpdateProduct" /\ tx[w].result = "ok"

\* the step of worker w commits the second of two AddToCart calls in a row for
\* one product, the first of which created the row, and found the row as the
\* first call left it
SecondAdd(w) ==
    /\ tx[w].op = "AddToCart"
    /\ tx[w].pc = "commit"
    /\ tx'[w].pc = "get_cart"
    /\ tx[w].again
    /\ tx[w].item # 0
    /\ tx[w].n = tx[w].prev

\* C10: cart merge on repeated add. AddToCart(u, p, a) followed by
\* AddToCart(u, p, b), both succeeding, leaves exactly one cart_items row for p
\* in u's cart, with quantity a + b; and in every reachable state, also after
\* concurrent adds, a cart holds at most one row per product.
C10_CartMerge ==
    /\ [](\A k1, k2 \in DOMAIN cart_items :
            (/\ cart_items[k1] # Deleted
             /\ cart_items[k1].cart_id = cart_items[k2].cart_id
             /\ cart_items[k1].product_id = cart_items[k2].product_id)
                => k1 = k2)
    /\ [][ \A w \in DOMAIN tx :
             SecondAdd(w) =>
                \E k \in DOMAIN cart_items' :
                    /\ ItemsOf(cart_items', tx[w].cart, tx[w].product) = {k}
                    /\ cart_items'[k].quantity = tx[w].prev + tx[w].qty ]_vars

\* C10 witness: the second of two adds in a row has returned success and the
\* row carries the sum of the two quantities, while another request had its
\* insert of the same product refused by the UNIQUE constraint.
C10_Witness ==
    /\ \E w \in DOMAIN tx :
          /\ tx[w].pc = "done"
          /\ tx[w].op = "AddToCart"
          /\ tx[w].result = "ok"
          /\ tx[w].again
          /\ tx[w].mode = "update"
          /\ \E k \in ItemsOf(cart_items, tx[w].cart, tx[w].product) :
                cart_items[k].quantity = tx[w].prev + tx[w].qty
    /\ \E w \in DOMAIN tx :
          /\ tx[w].pc = "done"
          /\ tx[w].op = "AddToCart"
          /\ tx[w].result = "failed to add item to cart"

\* total quantity of product p in the rows of cart c
InCart(rows, c, p) ==
    IF ItemsOf(rows, c, p) = {} THEN 0
    ELSE rows[CHOOSE k \in ItemsOf(rows, c, p) : TRUE].quantity

\* C11: AddToCart rejects on insufficient stock and changes nothing. When the
\* quantity already in the cart for the product plus the requested quantity
\* exceeds the product's current stock, AddToCart fails with the
\* insufficient-stock error, which reports available = the current stock and
\* requested = the combined quantity, and the rows of the cart are unchanged.
C11_AddRejectsInsufficient ==
    [][ \A w \in DOMAIN tx :
          (/\ tx[w].op = "AddToCart"
           /\ tx[w].pc = "item"
           /\ tx'[w] # tx[w]
           /\ InCart(cart_items, tx[w].cart, tx[w].product) + tx[w].qty
                 > products[tx[w].product].stock)
             => /\ tx'[w].pc = "done"
                /\ tx'[w].result = "insufficient stock"
                /\ tx'[w].available = products[tx[w].product].stock
                /\ tx'[w].requested =
                      InCart(cart_items, tx[w].cart, tx[w].product) + tx[w].qty
                /\ cart_items' = cart_items ]_vars

\* C11 witness: an add to a cart that holds the product has been refused; the
\* quantity it reports as requested is more than the cart holds and more than
\* the stock it reports as available, which is the product's stock.
C11_Witness ==
    \E w \in DOMAIN tx :
        /\ tx[w].pc = "done"
        /\ tx[w].op = "AddToCart"
        /\ tx[w].result = "insufficient stock"
        /\ InCart(cart_items, tx[w].cart, tx[w].product) > 0
        /\ tx[w].requested > InCart(cart_items, tx[w].cart, tx[w].product)
        /\ tx[w].requested > tx[w].available
        /\ tx[w].available = products[tx[w].product].stock

\* the step of worker w is the commit of a checkout
CheckoutCommits(w) ==
    /\ tx[w].op = "CheckoutCart"
    /\ tx[w].pc = "commit"
    /\ tx'[w].pc = "get_order"

\* C12: successful checkout. With no concurrent operation, a CheckoutCart(u)
\* that succeeds creates exactly one order, owned by u, pending, with one item
\* per cart item carrying the cart item's product and quantity and the
\* product's price at checkout time, and takes each ordered quantity from the
\* product's stock; when it returns, the cart of u has no items.
C12_CheckoutSucceeds ==
    [][ \A w \in DOMAIN tx :
          /\ CheckoutCommits(w) =>
                LET lines == CartLines(tx[w].cart, Len(cart_items))
                    new == orders'[Len(orders')]
                IN  /\ Len(orders') = Len(orders) + 1
                    /\ \A o \in DOMAIN orders : orders'[o] = orders[o]
                    /\ new.user_id = tx[w].user
                    /\ carts[tx[w].cart] = tx[w].user
                    /\ new.status = "pending"
                    /\ DOMAIN new.items = DOMAIN lines
                    /\ \A j \in DOMAIN lines :
                          /\ new.items[j].product_id = lines[j].product_id
                          /\ new.items[j].quantity = lines[j].quantity
                          /\ new.items[j].price = products[lines[j].product_id].price
                    /\ \A p \in DOMAIN products :
                          products'[p].stock =
                              products[p].stock - InCart(cart_items, tx[w].cart, p)
          /\ (tx[w].op = "CheckoutCart" /\ Returns(w) /\ tx'[w].result = "ok") =>
                /\ tx[w].id \in DOMAIN orders
                /\ \A c \in CartsOf(tx[w].user) :
                      CartLines(c, Len(cart_items))' = << >> ]_vars

\* C12 witness: a checkout of a cart with two products has returned success;
\* the cart is empty and the order carries a price set in the catalogue before
\* the checkout.
C12_Witness ==
    \E w \in DOMAIN tx :
        /\ tx[w].pc = "done"
        /\ tx[w].op = "CheckoutCart"
        /\ tx[w].result = "ok"
        /\ Len(orders[tx[w].id].items) = NumProducts
        /\ \E j \in DOMAIN orders[tx[w].id].items :
              orders[tx[w].id].items[j].price = MaxPrice
        /\ \A k \in DOMAIN cart_items : cart_items[k] = Deleted

\* C13: CheckoutCart on a cart with no items fails with the "cart is empty"
\* error, creates no order and changes no stock: no step of a checkout up to
\* the reading of the cart writes an order or stock, and a checkout that reads
\* a cart without rows returns that error.
C13_EmptyCartRejected ==
    [][ \A w \in DOMAIN tx :
          (/\ tx[w].op = "CheckoutCart"
           /\ tx[w].pc \in {"cart", "cart_new", "view"}
           /\ tx'[w] # tx[w])
             => /\ orders' = orders
                /\ products' = products
                /\ (/\ tx[w].pc = "view"
                    /\ \A k \in DOMAIN cart_items :
                          cart_items[k].cart_id # tx[w].cart)
                      => /\ tx'[w].pc = "done"
                         /\ tx'[w].result = "cart is empty" ]_vars

\* C13 witness: the checkout of a cart that never held a row has returned
\* "cart is empty"; there is no order and stock is what it was.
C13_Witness ==
    /\ orders = << >>
    /\ StockOf(products) = initStock
    /\ cart_items = << >>
    /\ \E w \in DOMAIN tx :
          /\ tx[w].pc = "done"
          /\ tx[w].op = "CheckoutCart"
          /\ tx[w].result = "cart is empty"

\* the error of the first loop of CreateOrder for one request line, "" if none
LineError(line) ==
    IF line.product_id \notin DOMAIN products
       \/ ~products[line.product_id].is_active
    THEN "product not found or inactive"
    ELSE IF products[line.product_id].stock < line.quantity
    THEN "insufficient stock"
    ELSE ""

\* C14: failed checkout changes nothing. When a line of the cart is rejected by
\* order creation (its product has become inactive, or its stock has dropped
\* below the cart quantity), CheckoutCart returns the error CreateOrder gives
\* for that line, and the cart keeps its rows, no order is created and no stock
\* changes; a checkout changes the cart, the orders or the stock only from its
\* commit on.
C14_FailedCheckoutChangesNothing ==
    [][ \A w \in DOMAIN tx :
          (tx[w].op = "CheckoutCart" /\ tx'[w] # tx[w]) =>
             /\ tx[w].id = 0 /\ tx[w].pc # "commit"
                   => /\ cart_items' = cart_items
                      /\ orders' = orders
                      /\ products' = products
             /\ (Returns(w) /\ tx'[w].result # "ok") => tx[w].id = 0
             /\ tx[w].pc = "validate" =>
                   LET line == CartLines(tx[w].cart, Len(cart_items))[tx[w].i]
                   IN  IF LineError(line) = ""
                       THEN tx'[w].pc # "done"
                       ELSE /\ tx'[w].pc = "done"
                            /\ tx'[w].result = LineError(line)
                            /\ tx'[w].result = "insufficient stock"
                                  => /\ tx'[w].available = products[line.product_id].stock
                                     /\ tx'[w].requested = line.quantity ]_vars

\* C14 witness: a checkout has been refused at the second row of the cart,
\* whose product was deactivated or sold down after it was put in the cart;
\* the cart still holds both rows and there is no order.
C14_Witness ==
    /\ orders = << >>
    /\ \E w \in DOMAIN tx :
          /\ tx[w].pc = "done"
          /\ tx[w].op = "CheckoutCart"
          /\ tx[w].result \in {"product not found or inactive", "insufficient stock"}
          /\ tx[w].i = 2
    /\ Len(cart_items) = NumProducts
    /\ \A k \in DOMAIN cart_items : cart_items[k] # Deleted

\* positions of a request inside GetOrCreateCart
InGetOrCreateCart(w) ==
    tx[w].pc \in {"cart", "cart_new", "clear_cart", "clear_cart_new"}

\* every user owns at most one cart
OneCartPerUser ==
    \A c1, c2 \in DOMAIN carts : carts[c1] = carts[c2] => c1 = c2

\* GetOrCreateCart finds the cart of the user and creates none
ReturnsExistingCart ==
    \A w \in DOMAIN tx :
        (/\ InGetOrCreateCart(w)
         /\ CartsOf(tx[w].user) # {}
         /\ tx'[w] # tx[w]
         /\ tx'[w].result # "storage error")
            => /\ carts' = carts
               /\ tx[w].pc \in {"cart", "clear_cart"}
                     => tx'[w].cart \in CartsOf(tx[w].user)

\* C15: one cart per user. In every reachable state each user owns at most one
\* cart, also when GetOrCreateCart runs concurrently for one user who has no
\* cart yet; GetOrCreateCart returns the existing cart without creating one
\* when there is one, and it ends in an error only on a storage failure.
C15_OneCartPerUser ==
    /\ []OneCartPerUser
    /\ [][ /\ ReturnsExistingCart
           /\ \A w \in DOMAIN tx :
                 (InGetOrCreateCart(w) /\ tx'[w].pc = "done")
                    => tx'[w].result = "storage error" ]_vars

\* C15, without the last part: at most one cart per user in every reachable
\* state, and an existing cart is returned and none created.
C15_OneCartNoDuplicate ==
    []OneCartPerUser /\ [][ReturnsExistingCart]_vars

\* the request of worker w fits the initial stock when it runs alone, and every
\* product it names is active
FitsAlone(w) ==
    \A i \in DOMAIN tx[w].items :
        LET p == tx[w].items[i].product_id IN
        /\ p \in DOMAIN products
        /\ products[p].is_active
        /\ SumQty(tx[w].items, Len(tx[w].items), p) <= initStock[p]

\* worker w is refused although its request fits alone: it lost a race
LosesRace(w) ==
    /\ tx[w].op = "CreateOrder"
    /\ FitsAlone(w)
    /\ Returns(w)
    /\ tx'[w].result \notin {"ok", "storage error"}

\* C16: race for the last unit. Concurrent CreateOrder requests that fit the
\* stock one by one but not together cannot all succeed, and the one that is
\* refused is refused with the insufficient-stock error carrying the available
\* and the requested quantity, and with no other kind of error.
C16_LastUnitRace ==
    /\ [](\A p \in DOMAIN products : Reserved(Len(orders), p) <= initStock[p])
    /\ [][ \A w \in DOMAIN tx :
              LosesRace(w) =>
                 /\ tx'[w].result = "insufficient stock"
                 /\ tx'[w].requested > tx'[w].available ]_vars

\* the stock of p changes in this step as the Stock Ledger changes it: taken by
\* the commit of an order, or given back by the commit of a cancellation
LedgerStep(p) ==
    \E w \in DOMAIN tx :
        /\ tx[w].pc = "commit"
        /\ tx'[w].pc # "commit"
        /\ \/ tx[w].op \in CreateOps /\ products'[p].stock < products[p].stock
           \/ tx[w].op = "CancelOrder" /\ products'[p].stock > products[p].stock

\* C17: stock changes only through the Stock Ledger. In every step a product's
\* stock changes only as the decrement of a committing CreateOrder or the
\* increment of a committing CancelOrder; no other operation (cart operations,
\* UpdateOrderStatus, product update, stock update) changes a stock.
C17_StockOnlyThroughLedger ==
    [][ \A p \in DOMAIN products :
           products'[p].stock # products[p].stock => LedgerStep(p) ]_vars

\* no row of products with this id and is_active = true
MissingOrInactive(p) == p \notin DOMAIN products \/ ~products[p].is_active

\* the request of worker w ends with the product error and nothing is written
\* to the catalogue, the orders or the cart items
RefusedAsInactive(w) ==
    /\ tx'[w].pc = "done"
    /\ tx'[w].result = "product not found or inactive"
    /\ UNCHANGED <<products, orders, cart_items>>

\* AddToCart and UpdateCartItem at their product lookup
CartLookupRefuses(w) ==
    (/\ tx[w].op \in {"AddToCart", "UpdateCartItem"}
     /\ tx[w].pc = "product"
     /\ MissingOrInactive(tx[w].product)
     /\ tx'[w] # tx[w])
        => RefusedAsInactive(w)

\* the first loop of CreateOrder is left for the INSERT or for a response
LeavesValidation(w) ==
    /\ tx[w].op \in CreateOps
    /\ tx[w].pc = "validate"
    /\ tx'[w].pc # "validate"

\* C18 as stated: AddToCart, UpdateCartItem and CreateOrder (hence CheckoutCart)
\* fail with the product-not-found-or-inactive error and write nothing whenever
\* a product they refer to does not exist or has is_active = false, also when
\* it was deactivated after it was put in the cart.
C18_InactiveExcluded ==
    [][ \A w \in DOMAIN tx :
           /\ CartLookupRefuses(w)
           /\ (/\ LeavesValidation(w)
               /\ \E j \in DOMAIN tx[w].items :
                     MissingOrInactive(tx[w].items[j].product_id))
                 => RefusedAsInactive(w) ]_vars

\* C18 amended: the three operations fail and write nothing whenever a product
\* they refer to is missing or inactive. The error is the
\* product-not-found-or-inactive one, except that CreateOrder (hence
\* CheckoutCart) returns the insufficient-stock error of a line that comes
\* before the first such product and fails the stock comparison.
C18_InactiveExcludedInLineOrder ==
    [][ \A w \in DOMAIN tx :
           /\ CartLookupRefuses(w)
           /\ (/\ LeavesValidation(w)
               /\ MissingOrInactive(tx[w].items[tx[w].i].product_id))
                 => RefusedAsInactive(w)
           /\ (/\ LeavesValidation(w)
               /\ \E j \in DOMAIN tx[w].items :
                     MissingOrInactive(tx[w].items[j].product_id))
                 => /\ tx'[w].pc = "done"
                    /\ UNCHANGED <<products, orders, cart_items>>
                    /\ \/ tx'[w].result = "product not found or inactive"
                       \/ /\ tx'[w].result = "insufficient stock"
                          /\ \A j \in 1 .. tx[w].i :
                                ~MissingOrInactive(tx[w].items[j].product_id) ]_vars

\* C18 witness: a checkout has been refused with the product error for a
\* product that was deactivated after it was put in the cart, and the row is
\* still in the cart.
C18_Witness ==
    \E w \in DOMAIN tx :
        /\ tx[w].op = "CheckoutCart"
        /\ tx[w].pc = "done"
        /\ tx[w].result = "product not found or inactive"
        /\ orders = << >>
        /\ \E k \in DOMAIN cart_items :
              /\ cart_items[k] # Deleted
              /\ ~products[cart_items[k].product_id].is_active

\* the rows of the carts that do not belong to user u
RowsOfOthers(rows, u) ==
    [k \in DOMAIN rows |->
        IF rows[k].cart_id \in CartsOf(u) THEN Deleted ELSE rows[k]]

\* C19: cart item ownership. UpdateCartItem and RemoveFromCart called by user u
\* on an item id of another user's cart fail with the same error as on an id
\* that names no item, and leave every cart unchanged; no step of a cart
\* operation of u changes a row of another user's cart.
C19_ItemOwnership ==
    [][ \A w \in DOMAIN tx :
           /\ (/\ tx[w].op \in {"UpdateCartItem", "RemoveFromCart"}
               /\ tx[w].pc = "select"
               /\ tx'[w] # tx[w]
               /\ ~OwnedItem(tx[w].user, tx[w].item))
                 => /\ tx'[w].pc = "done"
                    /\ tx'[w].result = "cart item not found or not owned by user"
                    /\ UNCHANGED <<carts, cart_items>>
           /\ (tx[w].op \in CartWriteOps /\ tx'[w] # tx[w])
                 => /\ carts' = carts \/ carts' = Append(carts, tx[w].user)
                    /\ RowsOfOthers(cart_items', tx[w].user)
                          = RowsOfOthers(cart_items, tx[w].user)
                             \o [k \in 1 .. Len(cart_items') - Len(cart_items)
                                   |-> Deleted] ]_vars

\* C19 witness: a user's UpdateCartItem and the user's RemoveFromCart have both
\* been refused, one on a row of the other user's cart, which is still there,
\* and one on an id that names no row.
C19_Witness ==
    \E w, v \in DOMAIN tx :
        /\ tx[w].op = "UpdateCartItem"
        /\ tx[v].op = "RemoveFromCart"
        /\ \A x \in {w, v} :
              /\ tx[x].pc = "done"
              /\ tx[x].result = "cart item not found or not owned by user"
        /\ \E x \in {w, v} :
              /\ tx[x].item \in DOMAIN cart_items
              /\ cart_items[tx[x].item] # Deleted
              /\ cart_items[tx[x].item].cart_id \notin CartsOf(tx[x].user)
        /\ \E x \in {w, v} : tx[x].item \notin DOMAIN cart_items

\* C20: order listing scope. For a caller whose role is not admin, ListOrders
\* returns only orders owned by the caller, whatever user_id, status or date
\* filter the request supplies; a listing that holds another user's order has
\* been asked for by an admin.
C20_ListingScope ==
    \A w \in DOMAIN tx :
        (tx[w].op = "ListOrders" /\ tx[w].pc = "done")
           => \A i \in DOMAIN tx[w].list :
                 \/ orders[tx[w].list[i]].user_id = tx[w].user
                 \/ tx[w].role = "admin"

\* C20 witness: a caller who is not an admin has asked for the orders of the
\* other user, who has one, and has been given the own order.
C20_Witness ==
    \E w \in DOMAIN tx :
        /\ tx[w].op = "ListOrders"
        /\ tx[w].pc = "done"
        /\ tx[w].role # "admin"
        /\ tx[w].list # << >>
        /\ \E u \in tx[w].query.user_id :
              /\ u # tx[w].user
              /\ \E o \in DOMAIN orders : orders[o].user_id = u

\* the least number of pages of L rows that hold T rows
Ceil(T, L) == CHOOSE n \in 0 .. T : n * L >= T /\ \A m \in 0 .. T : m * L >= T => n <= m

\* the orders a request asks for: the caller's own for a customer, the named
\* user's or everybody's for an admin, narrowed by status and dates
Asked(w) ==
    { o \in DOMAIN orders :
        /\ tx[w].role # "admin" => orders[o].user_id = tx[w].user
        /\ tx[w].role = "admin" => \A u \in tx[w].query.user_id : orders[o].user_id = u
        /\ \A st \in tx[w].query.status : orders[o].status = st
        /\ \A d \in tx[w].query.start_date : CreatedAt(o) >= d
        /\ \A d \in tx[w].query.end_date : CreatedAt(o) <= d }

C22_StatusOverwrite ==
    [][ \A w \in DOMAIN tx :
          (tx[w].op = "UpdateOrderStatus" /\ Returns(w)) =>
             LET id == tx[w].id
             IN  /\ products' = products
                 /\ IF id \notin DOMAIN orders
                    THEN /\ tx'[w].result = "order not found"
                         /\ orders' = orders
                    ELSE /\ tx'[w].result = "ok"
                         /\ tx[w].status \in Statuses
                         /\ orders'[id].status = tx[w].status
                         /\ orders'[id].items = orders[id].items
                         /\ orders'[id].total_amount = orders[id].total_amount
                         /\ \A o \in DOMAIN orders \ {id} : orders'[o] = orders[o]
                         /\ DOMAIN orders' = DOMAIN orders ]_vars

\* C22 witness: an order that had been cancelled, its stock given back, has been
\* set to delivered by UpdateOrderStatus and keeps its items.
C22_Witness ==
    \E w \in DOMAIN tx :
        /\ tx[w].op = "UpdateOrderStatus"
        /\ tx[w].pc = "done"
        /\ tx[w].result = "ok"
        /\ tx[w].id \in DOMAIN orders
        /\ orders[tx[w].id].status = "delivered"
        /\ Len(orders) = 1
        /\ StockOf(products) = initStock
        /\ \E p \in DOMAIN products : initStock[p] > 0

\* C23: cart quantity is validated against live stock at write time. Whenever
\* AddToCart or UpdateCartItem commits a quantity q for product p, q is at most
\* the stock of p as of that commit, also when an order or a stock change for p
\* has committed between the operation's stock read and its cart write.
C23_QuantityWithinLiveStock ==
    [][ \A w \in DOMAIN tx :
          (/\ tx[w].op \in {"AddToCart", "UpdateCartItem"}
           /\ tx[w].pc = "commit"
           /\ tx'[w].pc # "commit")
             => \A k \in DOMAIN cart_items' :
                   (k \notin DOMAIN cart_items \/ cart_items'[k] # cart_items[k])
                      => cart_items'[k].quantity
                            <= products[cart_items'[k].product_id].stock ]_vars

\* a checkout has returned after its ClearCart failed
ClearFailed(w) ==
    /\ tx[w].op = "CheckoutCart"
    /\ tx[w].pc = "done"
    /\ tx[w].warning # ""

\* the order the checkout of worker w returns is committed with its stock taken
OrderStays(w) ==
    /\ tx[w].result = "ok"
    /\ tx[w].id \in DOMAIN orders
    /\ orders[tx[w].id].user_id = tx[w].user
    /\ orders[tx[w].id].status = "pending"
    /\ \A p \in DOMAIN products :
          products[p].stock = initStock[p] - Reserved(Len(orders), p)

\* C24: a cart-clear failure after checkout does not undo the order. When
\* CreateOrder has committed and the ClearCart that follows fails, CheckoutCart
\* still returns the order as success, the order and its stock decrement stay
\* committed, and the cart keeps its items.
C24_ClearFailureKeepsOrder ==
    \A w \in DOMAIN tx :
        ClearFailed(w) =>
           /\ OrderStays(w)
           /\ \A c \in CartsOf(tx[w].user) :
                 [j \in DOMAIN orders[tx[w].id].items |->
                     [product_id |-> orders[tx[w].id].items[j].product_id,
                      quantity |-> orders[tx[w].id].items[j].quantity]]
                    = CartLines(c, Len(cart_items))

\* C24 without its last part: the order is returned and stays committed
C24_OrderKept ==
    \A w \in DOMAIN tx : ClearFailed(w) => OrderStays(w)

RECURSIVE LineTotals(_, _)
\* quantity * price of the first k stored order items, added up
LineTotals(items, k) ==
    IF k = 0 THEN 0
    ELSE LineTotals(items, k - 1) + items[k].quantity * items[k].price

\* C25: result of a successful CreateOrder. The new order is pending and owned
\* by the caller; it has one order item per request line with that line's
\* product and quantity and the price the transaction read for the product;
\* total_amount is the sum over the lines of quantity * that price; and each
\* product's stock is lower than before by the total quantity requested for it.
C25_CreateOrderResult ==
    [][ \A w \in DOMAIN tx :
          (/\ tx[w].op = "CreateOrder"
           /\ tx[w].pc = "commit"
           /\ tx'[w].pc # "commit"
           /\ tx'[w].pc # "done")
             => LET id == Len(orders) + 1
                    req == tx[w].items
                IN  /\ DOMAIN orders' = 1 .. id
                    /\ tx'[w].id = id
                    /\ orders'[id].status = "pending"
                    /\ orders'[id].user_id = tx[w].user
                    /\ DOMAIN orders'[id].items = DOMAIN req
                    /\ \A j \in DOMAIN req :
                          /\ orders'[id].items[j].product_id = req[j].product_id
                          /\ orders'[id].items[j].quantity = req[j].quantity
                          /\ orders'[id].items[j].price = tx[w].prices[j]
                    /\ orders'[id].total_amount
                          = LineTotals(orders'[id].items, Len(req))
                    /\ \A p \in DOMAIN products :
                          products'[p].stock + SumQty(req, Len(req), p)
                             = products[p].stock ]_vars

\* C25 witness: CreateOrder has returned an order of two lines, one of them of
\* quantity two, whose total is above the number of its lines, and a price the
\* order carries is no longer the catalogue price.
C25_Witness ==
    \E w \in DOMAIN tx :
        /\ tx[w].op = "CreateOrder"
        /\ tx[w].pc = "done"
        /\ tx[w].result = "ok"
        /\ tx[w].id \in DOMAIN orders
        /\ Len(orders[tx[w].id].items) = 2
        /\ orders[tx[w].id].total_amount > 2
        /\ \E j \in DOMAIN orders[tx[w].id].items :
              orders[tx[w].id].items[j].price
                 # products[orders[tx[w].id].items[j].product_id].price

\* what has been added back to the stock of p on behalf of the orders placed:
\* the stock there is, above the initial stock less the quantities ordered
Released(p) ==
    products[p].stock - (initStock[p] - Reserved(Len(orders), p))

\* C26: released stock never exceeds reserved stock. Over any sequence of
\* CancelOrder and UpdateOrderStatus calls on an order (cancel, set the status
\* back to pending, cancel again), the quantity added back to a product's stock
\* on behalf of the order never exceeds the quantity its creation removed.
C26_ReleaseWithinReserve ==
    \A p \in DOMAIN products : Released(p) <= Reserved(Len(orders), p)

RECURSIVE Outstanding(_, _)
\* quantity of product p in the order items of the first n orders that are not
\* cancelled
Outstanding(n, p) ==
    IF n = 0 THEN 0
    ELSE Outstanding(n - 1, p)
           + (IF orders[n].status = "cancelled" THEN 0
              ELSE SumQty(orders[n].items, Len(orders[n].items), p))

\* C27: stock conservation. In every state reached by CreateOrder, CancelOrder
\* and UpdateOrderStatus requests one after another (no product or stock edits),
\* the stock of every product plus the quantity of its order items in the
\* orders that are not cancelled equals the product's initial stock.
C27_StockConservation ==
    \A p \in DOMAIN products :
        products[p].stock + Outstanding(Len(orders), p) = initStock[p]

\* every line of the request of worker w names an active product and fits its
\* stock alone, and the lines of some product together do not
SumExceedsStock(w) ==
    /\ tx[w].items # << >>
    /\ \A j \in DOMAIN tx[w].items :
          LET p == tx[w].items[j].product_id
          IN  /\ p \in DOMAIN products
              /\ products[p].is_active
              /\ tx[w].items[j].quantity <= products[p].stock
    /\ \E p \in DOMAIN products :
          SumQty(tx[w].items, Len(tx[w].items), p) > products[p].stock

\* C28: order requests that name one product in several lines. CreateOrder
\* commits such a request only if the sum of those lines' quantities is at most
\* the product's stock; when every line alone fits the stock and the sum does
\* not, the request is rejected with the insufficient-stock error and no stock
\* and no order row changes.
C28_DuplicateLines ==
    [][ \A w \in DOMAIN tx :
          /\ (/\ tx[w].op = "CreateOrder"
              /\ tx[w].pc = "commit"
              /\ tx'[w].pc # "commit"
              /\ orders' # orders)
                => \A p \in DOMAIN products :
                      SumQty(tx[w].items, Len(tx[w].items), p) <= products[p].stock
          /\ (/\ tx[w].op = "CreateOrder"
              /\ SumExceedsStock(w)
              /\ Returns(w))
                => /\ tx'[w].result = "insufficient stock"
                   /\ products' = products
                   /\ orders' = orders ]_vars

\* C28 without the kind of the error: such a request never commits and changes
\* nothing
C28_DuplicateLinesRefused ==
    [][ \A w \in DOMAIN tx :
          (tx[w].op = "CreateOrder" /\ SumExceedsStock(w) /\ tx'[w] # tx[w])
             => /\ tx'[w].result # "ok"
                /\ tx'[w].pc # "commit"
                /\ products' = products
                /\ orders' = orders ]_vars

\* C29: cart operations are atomic with respect to each other. When AddToCart
\* calls of one user for one product run concurrently and report success, the
\* cart ends with one row whose quantity is the existing one plus the
\* quantities of the calls: every call that commits adds its quantity to what
\* the cart holds when it commits, as in some sequential order of the calls.
C29_NoLostUpdate ==
    [][ \A w \in DOMAIN tx :
          (/\ tx[w].op = "AddToCart"
           /\ tx[w].pc = "commit"
           /\ tx'[w].pc = "get_cart")
             => InCart(cart_items', tx[w].cart, tx[w].product)
                   = InCart(cart_items, tx[w].cart, tx[w].product) + tx[w].qty ]_vars

\* C30: checkout never discards unordered items. In any interleaving of
\* CheckoutCart with AddToCart or UpdateCartItem calls of the same user, every
\* cart item (product and quantity) that the checkout's clear step removes is
\* contained in the order this checkout created.
C30_ClearsOnlyOrdered ==
    [][ \A w \in DOMAIN tx :
          (/\ tx[w].op = "CheckoutCart"
           /\ tx[w].pc = "clear_items"
           /\ tx'[w].pc # "clear_items")
             => \A k \in DOMAIN cart_items :
                   (cart_items[k] # Deleted /\ cart_items'[k] = Deleted)
                      => \E j \in DOMAIN orders[tx[w].id].items :
                            /\ orders[tx[w].id].items[j].product_id
                                  = cart_items[k].product_id
                            /\ orders[tx[w].id].items[j].quantity
                                  = cart_items[k].quantity ]_vars

\* C31: one cart content yields at most one order. When CheckoutCart calls of
\* one user run concurrently on the same non-empty cart and the stock suffices
\* for both, at most one order is created from the content of the cart and the
\* stock is decremented for it at most once: the other call fails or finds the
\* cart empty.
C31_OneOrderPerCartContent ==
    /\ Len(orders) <= OneOrder
    /\ \A p \in DOMAIN products :
          initStock[p] - products[p].stock
             <= IF orders = << >> THEN 0 ELSE Reserved(OneOrder, p)

\* C32: readers never observe a half-applied reservation. In any interleaving
\* of CreateOrder with concurrent reads, the order a GetOrder returns comes
\* with all of its order items (their quantity * price add up to the total of
\* the order row), and the stock a GetProduct returns is the initial stock less
\* the quantities of the orders that exist at the moment of the read: never a
\* part of an order's decrements, never the decrement of an order that does
\* not exist yet.
C32_NoHalfAppliedReservation ==
    [][ \A w \in DOMAIN tx :
          /\ (/\ tx[w].op = "GetOrder"
              /\ tx[w].pc = "order_items"
              /\ tx'[w].pc = "done")
                => /\ tx'[w].items # << >>
                   /\ LineTotals(tx'[w].items, Len(tx'[w].items)) = tx[w].total
          /\ (/\ tx[w].op = "GetProduct"
              /\ tx[w].pc = "select"
              /\ tx'[w].result = "ok")
                => tx'[w].available
                      = initStock[tx[w].product]
                           - Reserved(Len(orders), tx[w].product) ]_vars

\* C32 witness: GetProduct has returned the full initial stock while a
\* CreateOrder of two lines for that product has written the first of its
\* stock updates and no order exists.
C32_Witness ==
    \E w, v \in DOMAIN tx :
        /\ tx[w].op = "GetProduct"
        /\ tx[w].pc = "done"
        /\ tx[w].result = "ok"
        /\ tx[w].available = initStock[tx[w].product]
        /\ orders = << >>
        /\ tx[v].op = "CreateOrder"
        /\ tx[v].pc = "items"
        /\ tx[v].i = 2
        /\ tx[v].items[1].product_id = tx[w].product

\* C33: UpdateCartItem overwrites, it does not add. For an item owned by the
\* caller whose product is active and has stock >= q, UpdateCartItem(u, item, q)
\* sets the quantity of that item to exactly q whatever it was before and
\* leaves every other cart item and all stock unchanged; when q > stock it
\* fails with the insufficient-stock error (available = stock, requested = q)
\* and the item keeps its quantity.
C33_UpdateOverwrites ==
    [][ \A w \in DOMAIN tx :
          tx[w].op = "UpdateCartItem" =>
             LET k == tx[w].item
                 q == tx[w].qty
             IN  /\ (/\ tx[w].pc = "select"
                     /\ OwnedItem(tx[w].user, k))
                       => /\ tx'[w].pc = "product"
                          /\ tx'[w].product = cart_items[k].product_id
                 /\ (/\ tx[w].pc = "product"
                     /\ products[tx[w].product].is_active
                     /\ q <= products[tx[w].product].stock)
                       => tx'[w].pc = "write"
                 /\ (/\ tx[w].pc = "product"
                     /\ products[tx[w].product].is_active
                     /\ q > products[tx[w].product].stock)
                       => /\ tx'[w].pc = "done"
                          /\ tx'[w].result = "insufficient stock"
                          /\ tx'[w].available = products[tx[w].product].stock
                          /\ tx'[w].requested = q
                          /\ cart_items' = cart_items
                 /\ tx[w].pc = "write" => tx'[w].pc = "touch"
                 /\ tx[w].pc = "touch" => tx'[w].pc = "commit"
                 /\ tx[w].pc = "commit"
                       => /\ cart_items' = [cart_items EXCEPT ![k].quantity = q]
                          /\ tx'[w].pc = "get_cart"
                 /\ tx[w].pc = "get_cart" => tx'[w].result = "ok"
                 /\ products' = products
                 /\ tx[w].pc # "commit" => cart_items' = cart_items ]_vars

\* C33 witness: an UpdateCartItem has lowered a row from quantity 2 to 1 in a
\* cart that holds another row.
C33_Witness ==
    \E w \in DOMAIN tx :
        /\ tx[w].op = "UpdateCartItem"
        /\ tx[w].pc = "get_cart"
        /\ tx[w].n = 2
        /\ tx[w].qty = 1
        /\ cart_items[tx[w].item].quantity = 1
        /\ \E j \in DOMAIN cart_items :
              /\ j # tx[w].item
              /\ cart_items[j] # Deleted
              /\ cart_items[j].cart_id = tx[w].cart

\* C34: RemoveFromCart is not idempotent. For an item owned by the caller it
\* deletes exactly that row and leaves every other cart item, all stock and all
\* orders unchanged; calling it again with the same item id fails with
\* "cart item not found or not owned by user" instead of succeeding as a no-op.
C34_RemoveNotIdempotent ==
    [][ \A w \in DOMAIN tx :
          tx[w].op = "RemoveFromCart" =>
             LET k == tx[w].item
             IN  /\ (tx[w].pc = "select" /\ OwnedItem(tx[w].user, k))
                       => tx'[w].pc = "write"
                 /\ (tx[w].pc = "select" /\ tx[w].again)
                       => /\ tx'[w].pc = "done"
                          /\ tx'[w].result
                                = "cart item not found or not owned by user"
                 /\ tx[w].pc = "write" => tx'[w].pc = "touch"
                 /\ tx[w].pc = "touch" => tx'[w].pc = "commit"
                 /\ tx[w].pc = "commit"
                       => /\ cart_items[k] # Deleted
                          /\ cart_items' = [cart_items EXCEPT ![k] = Deleted]
                          /\ tx'[w].pc = "get_cart"
                 /\ tx[w].pc = "get_cart" => tx'[w].result = "ok"
                 /\ tx[w].pc # "commit" => cart_items' = cart_items
                 /\ products' = products
                 /\ orders' = orders ]_vars

\* C34 witness: the second of two RemoveFromCart calls in a row on one item has
\* been refused, while the cart keeps another row and an order exists.
C34_Witness ==
    \E w \in DOMAIN tx :
        /\ tx[w].op = "RemoveFromCart"
        /\ tx[w].pc = "done"
        /\ tx[w].again
        /\ tx[w].result = "cart item not found or not owned by user"
        /\ cart_items[tx[w].item] = Deleted
        /\ orders # << >>
        /\ \E j \in DOMAIN cart_items :
              cart_items[j] # Deleted /\ cart_items[j].cart_id \in CartsOf(tx[w].user)

\* C35: ClearCart deletes all items of the caller's cart and only those. After
\* it the caller's cart exists and has zero items, it succeeds on a cart that
\* is already empty, and it leaves the carts of other users, all product stock
\* and all orders unchanged.
C35_ClearCartFrame ==
    [][ \A w \in DOMAIN tx :
          tx[w].op = "ClearCart" =>
             LET u == tx[w].user
             IN  /\ tx[w].pc \in {"clear_cart", "clear_cart_new"}
                       => /\ tx'[w].pc # "done"
                          /\ cart_items' = cart_items
                 /\ tx[w].pc = "clear_items"
                       => /\ tx[w].cart \in CartsOf(u)
                          /\ tx'[w].pc = "clear_touch"
                          /\ \A k \in DOMAIN cart_items :
                                cart_items'[k]
                                   = IF cart_items[k].cart_id \in CartsOf(u)
                                     THEN Deleted ELSE cart_items[k]
                 /\ tx[w].pc = "clear_touch"
                       => /\ tx'[w].pc = "done"
                          /\ tx'[w].result = "ok"
                          /\ CartsOf(u) # {}
                          /\ \A c \in CartsOf(u) :
                                CartLines(c, Len(cart_items)) = << >>
                          /\ cart_items' = cart_items
                 /\ \A c \in DOMAIN carts : carts'[c] = carts[c]
                 /\ products' = products
                 /\ orders' = orders ]_vars

\* C35 witness: the DELETE of a ClearCart has removed a row of the caller's
\* cart while the cart of the other user holds a row and an order exists.
C35_Witness ==
    \E w \in DOMAIN tx :
        /\ tx[w].op = "ClearCart"
        /\ tx[w].pc = "clear_touch"
        /\ tx[w].n > 0
        /\ orders # << >>
        /\ \E j \in DOMAIN cart_items :
              /\ cart_items[j] # Deleted
              /\ cart_items[j].cart_id \notin CartsOf(tx[w].user)

\* C35, the empty cart: a ClearCart whose DELETE removed nothing has returned
\* success.
C35_EmptyCartCleared ==
    \E w \in DOMAIN tx :
        /\ tx[w].op = "ClearCart"
        /\ tx[w].pc = "done"
        /\ tx[w].result = "ok"
        /\ cart_items = << >>

RECURSIVE RowsQuantity(_, _, _)
\* the quantities of the rows of cart c among the first k rows, added up
RowsQuantity(rows, c, k) ==
    IF k = 0 THEN 0
    ELSE RowsQuantity(rows, c, k - 1)
            + (IF rows[k].cart_id = c THEN rows[k].quantity ELSE 0)

RECURSIVE RowsAmount(_, _, _, _)
\* quantity * catalogue price of the rows of cart c among the first k rows
RowsAmount(rows, prods, c, k) ==
    IF k = 0 THEN 0
    ELSE RowsAmount(rows, prods, c, k - 1)
            + (IF rows[k].cart_id = c
               THEN rows[k].quantity * prods[rows[k].product_id].price ELSE 0)

CancelOutcome(id) ==
    IF id \notin DOMAIN orders THEN "order not found"
    ELSE IF orders[id].status = "cancelled" THEN "order is already cancelled"
    ELSE IF orders[id].status = "delivered" THEN "cannot cancel delivered order"
    ELSE "ok"

RECURSIVE Revenue(_)
\* total_amount of the first k orders, the cancelled ones left out
Revenue(k) ==
    IF k = 0 THEN 0
    ELSE Revenue(k - 1)
            + (IF orders[k].status = "cancelled" THEN 0 ELSE orders[k].total_amount)

RECURSIVE SumCounts(_, _)
\* the counts of the statuses in S, added up
SumCounts(counts, S) ==
    IF S = {} THEN 0
    ELSE LET s == CHOOSE x \in S : TRUE
         IN  counts[s] + SumCounts(counts, S \ {s})

C39_SoftDelete ==
    /\ [](/\ \A o \in DOMAIN orders : \A j \in DOMAIN orders[o].items :
                orders[o].items[j].product_id \in DOMAIN products
          /\ \A k \in DOMAIN cart_items :
                cart_items[k] # Deleted
                   => cart_items[k].product_id \in DOMAIN products)
    /\ [][ /\ DOMAIN products \subseteq DOMAIN products'
           /\ \A w \in DOMAIN tx :
                 tx[w].op = "DeleteProduct" =>
                    /\ \A p \in DOMAIN products :
                          /\ products'[p].stock = products[p].stock
                          /\ products'[p].price = products[p].price
                          /\ products'[p].is_active
                                = IF tx[w].pc = "update" /\ p = tx[w].id
                                  THEN FALSE ELSE products[p].is_active
                    /\ tx[w].pc = "update" => tx'[w].result = "ok"
                    /\ orders' = orders
                    /\ cart_items' = cart_items ]_vars

\* C39 witness: DeleteProduct has returned for a product that has stock and
\* that an order item and a cart item refer to; the product is inactive.
C39_Witness ==
    \E w \in DOMAIN tx :
        /\ tx[w].op = "DeleteProduct"
        /\ tx[w].pc = "done"
        /\ tx[w].result = "ok"
        /\ ~products[tx[w].id].is_active
        /\ products[tx[w].id].stock > 0
        /\ \E o \in DOMAIN orders : tx[w].id \in OrderProducts(o)
        /\ \E k \in DOMAIN cart_items : cart_items[k].product_id = tx[w].id

====
